---- MODULE Spec2Model ----
(***************************************************************************)
(* A model of the reconciliation engine of EstimateAI-ELECTRA:             *)
(*   - the Price Mapping Engine   (src/src/services/openai/priceMapper.ts) *)
(*   - the Comparison Engine      (src/unnamed/part_005)                   *)
(*   - the Extraction Orchestrator (src/unnamed/part_004)                  *)
(*   - parseDocument    (src/src/services/parsing/parsingPipeline.ts)      *)
(*   - normalizeSize and categorizeItem (priceMapper.ts), and             *)
(*     parseJsonFromMessage and toItemsArray (part_004), as functions      *)
(*     applied to inputs drawn from bounded sets                           *)
(*   - waitForFileReady           (src/unnamed/part_006)                   *)
(*   - PUT /drawing-extraction    (src/src/routes/prompts.ts)              *)
(*   - the estimate wizard        (src/frontend/src/App.tsx)               *)
(* The external reasoning service (the oracle) is the environment: its     *)
(* response is drawn from a bounded set of JSON-like values.  Each engine  *)
(* has a specification of its own; the variables of the other engines stay *)
(* idle in it.                                                             *)
(***************************************************************************)
EXTENDS Integers, Sequences, FiniteSets, TLC

VARIABLES
    pm_pc,          \* mapItemsToPriceList: position of the async function
    items,          \* mapItemsToPriceList: the caller's item array
    priceList,      \* the rows loadPriceList resolved to
    pm_content,     \* the oracle's response text (as a JSON-like value)
    pm_mappings,    \* the mappings of the returned PriceMappingResponse
    pm_calls,       \* requests mapItemsToPriceList has sent to the oracle
    cmp_pc,         \* comparePreExtractedLists: position of the async function
    drawingItems,   \* comparePreExtractedLists: the caller's drawing items
    boqItems,       \* comparePreExtractedLists: the caller's BOQ items
    cmp_response,   \* the oracle's response text (as a JSON-like value)
    cmp_comparisons, \* the comparisons of the returned object
    cmp_rawContent, \* the rawContent of the returned object
    cmp_calls,      \* requests comparePreExtractedLists has sent to the oracle
    ex_pc,          \* the extraction orchestrator: position of the async function
    ex_variant,     \* "openai" (extractAttributesWithOpenAI) or "gemini" (...FromPdfWithGemini)
    ex_response,    \* per category, what the service answered to its call
    ex_task,        \* per category, the state of its promise and the value it holds
    ex_items,       \* items of the returned object
    ex_errors,      \* the errors array written into rawContent
    ex_first,       \* the category whose call settled first (0: none has yet)
    ex_calls,       \* per category, the requests sent to the service
    pd_pc,          \* parseDocument: position of the async function
    ns_pc,          \* normalizeSize: not called, called once, called on its result
    ns_size,        \* normalizeSize: the argument
    ns_result,      \* normalizeSize(size)
    ns_again,       \* normalizeSize(normalizeSize(size))
    cat_pc,         \* categorizeItem: position
    cat_item,       \* categorizeItem: the argument
    cat_result,     \* categorizeItem(cat_item)
    pj_pc,          \* parseJsonFromMessage: position
    pj_message,     \* parseJsonFromMessage: the argument
    pj_result,      \* what parseJsonFromMessage(pj_message) settled to
    ti_pc,          \* toItemsArray: position
    ti_payload,     \* toItemsArray: the argument
    ti_result,      \* toItemsArray(ti_payload)
    wf_pc,          \* waitForFileReady: position of the async function
    wf_maxWait,     \* maxWaitMs
    wf_elapsed,     \* Date.now() - startTime
    wf_poll,        \* what the last poll gave
    wf_error,       \* the error the function rejected with
    rt_pc,          \* PUT /drawing-extraction: position of the handler
    rt_request,     \* req.body
    rt_store,       \* the prompt repository: content by key
    rt_before,      \* the prompt repository when the request arrived
    rt_key,         \* the category the loop is at
    rt_status,      \* the status of the response (0: none yet)
    wz_pc,          \* the estimate wizard: mounted or not
    activeEstimateStep, \* the step the wizard shows
    reviewStepActive,   \* the flag of the same name
    wz_drawingItems,    \* drawingItemsFlat.length
    wz_boqItems,        \* boqResults.boqItems.length
    wz_comparisons,     \* boqResults.comparisons.length
    finalizeItems       \* finalizeItems.length

pmVars == <<pm_pc, items, priceList, pm_content, pm_mappings, pm_calls>>
cmpVars ==
    <<cmp_pc, drawingItems, boqItems, cmp_response, cmp_comparisons, cmp_rawContent, cmp_calls>>

exVars ==
    <<ex_pc, ex_variant, ex_response, ex_task, ex_items, ex_errors, ex_first, ex_calls, pd_pc>>

nsVars == <<ns_pc, ns_size, ns_result, ns_again>>
catVars == <<cat_pc, cat_item, cat_result>>

pjVars == <<pj_pc, pj_message, pj_result>>
\* The variables of the helpers and handlers modelled after the five above.
tiVars == <<ti_pc, ti_payload, ti_result>>
wfVars == <<wf_pc, wf_maxWait, wf_elapsed, wf_poll, wf_error>>
rtVars == <<rt_pc, rt_request, rt_store, rt_before, rt_key, rt_status>>
wzVars ==
    <<wz_pc, activeEstimateStep, reviewStepActive, wz_drawingItems, wz_boqItems, wz_comparisons,
      finalizeItems>>
utilVars == <<pjVars, tiVars, wfVars, rtVars, wzVars>>

vars == <<pmVars, cmpVars, exVars, nsVars, catVars, utilVars>>

(***************************************************************************)
(* Bounds of the model.                                                    *)
(***************************************************************************)
MaxItems == 1       \* longest caller item array
MaxRows == 2        \* longest loaded price list
MaxEntries == 2     \* longest array in an oracle response

(***************************************************************************)
(* JavaScript values an oracle's JSON can put in an index field.  A number *)
(* is floor + (half ? 0.5 : 0), so 1.5 is [n |-> 1, half |-> TRUE] and     *)
(* -0.5 is [n |-> -1, half |-> TRUE].                                      *)
(***************************************************************************)
Undefined == [t |-> "undefined", n |-> 0, half |-> FALSE]
Null == [t |-> "null", n |-> 0, half |-> FALSE]
Str == [t |-> "string", n |-> 0, half |-> FALSE]
Num(k) == [t |-> "number", n |-> k, half |-> FALSE]
Half(k) == [t |-> "number", n |-> k, half |-> TRUE]

IsNumber(v) == v.t = "number"
IsInteger(v) == v.t = "number" /\ ~v.half
\* v >= k and v < k for a JavaScript number v and an integer k
NumGe(v, k) == v.n >= k
NumLt(v, k) == v.n < k

\* The caller's items and the price list rows are opaque records, told apart
\* by position.
Item(i) == [kind |-> "item", id |-> i]
ItemsOfLen(n) == [i \in 1..n |-> Item(i - 1)]
Row(i) == [present |-> TRUE, id |-> i]
UndefinedRow == [present |-> FALSE, id |-> 0]
RowsOfLen(n) == [i \in 1..n |-> Row(i - 1)]

(***************************************************************************)
(* The oracle's response to mapItemsToPriceList.  form says what the text  *)
(* is: a bare JSON array, a JSON object, a JSON object inside prose, a     *)
(* JSON scalar (null, a number, a string), or text with no JSON in it.     *)
(* For "array" arr is the array; for "object" and "prose" hasArr says      *)
(* whether the object's `mappings` field is an array, and arr is it.       *)
(***************************************************************************)
ItemIndexValues == {Undefined, Str, Num(-1), Num(0), Num(1), Half(0)}
PriceIndexValues == {Undefined, Str, Num(-1), Num(0), Num(1), Num(2), Half(1)}

NullEntry == [isNull |-> TRUE, item_index |-> Undefined, price_list_index |-> Undefined]
ObjectEntries ==
    [isNull : {FALSE}, item_index : ItemIndexValues, price_list_index : PriceIndexValues]
Entries == ObjectEntries \cup {NullEntry}

SeqsUpTo(S, n) == UNION {[1..k -> S] : k \in 0..n}

NoContent == [form |-> "none", hasArr |-> FALSE, arr |-> <<>>]
Contents ==
    [form : {"array", "object", "prose"}, hasArr : {TRUE}, arr : SeqsUpTo(Entries, MaxEntries)]
    \cup [form : {"object", "prose", "scalar", "garbage"}, hasArr : {FALSE}, arr : {<<>>}]

(***************************************************************************)
(* parseMappings                                                           *)
(***************************************************************************)
\* The .filter of tryParse: both indices are numbers and neither is negative.
FilterAccepts(m) ==
    /\ IsNumber(m.item_index)
    /\ IsNumber(m.price_list_index)
    /\ NumGe(m.item_index, 0)
    /\ NumGe(m.price_list_index, 0)

\* The .map of tryParse reads m.item_index of every element: a null element
\* throws a TypeError, which the try/catch turns into [].
MapThrows(arr) == \E i \in 1..Len(arr) : arr[i].isNull

RawMapping(e) == [item_index |-> e.item_index, price_list_index |-> e.price_list_index]

RECURSIVE MapEntries(_)
MapEntries(arr) ==
    IF arr = <<>> THEN <<>> ELSE <<RawMapping(Head(arr))>> \o MapEntries(Tail(arr))

\* tryParse applied to a text that JSON.parse accepts as `value`.
tryParseValue(value) ==
    IF ~value.hasArr THEN <<>>
    ELSE IF MapThrows(value.arr) THEN <<>>
    ELSE SelectSeq(MapEntries(value.arr), FilterAccepts)

\* tryParse(content): JSON.parse throws on prose and on text without JSON.
tryParseDirect(content) ==
    IF content.form \in {"array", "object", "scalar"} THEN tryParseValue(content) ELSE <<>>

\* content.match(/\{[\s\S]*\}/) and tryParse of the match: the span from the
\* first "{" to the last "}".  For an object (alone or in prose) it is the
\* object; for an array of one object it is that element, an object without
\* `mappings`; for a longer array it is "{..},{..}", which does not parse;
\* a scalar and text without JSON have no such span or none that parses.
tryParseFallback(content) ==
    IF content.form \in {"object", "prose"} THEN tryParseValue(content) ELSE <<>>

parseMappings(content) ==
    LET direct == tryParseDirect(content)
    IN IF direct # <<>> THEN direct ELSE tryParseFallback(content)

(***************************************************************************)
(* mapItemsToPriceList                                                     *)
(***************************************************************************)
\* The bounds test written with > for >=: the index equal to the length passes.
IndexOutOfBoundsOffByOne(mapping, rows) ==
    \/ IF mapping.price_list_index.half
       THEN NumGe(mapping.price_list_index, Len(rows))
       ELSE NumGe(mapping.price_list_index, Len(rows) + 1)
    \/ NumLt(mapping.price_list_index, 0)

\* The bounds test of the loop: TRUE when the mapping is skipped.
IndexOutOfBounds(mapping, rows) ==
    \/ NumGe(mapping.price_list_index, Len(rows))
    \/ NumLt(mapping.price_list_index, 0)

\* priceList[mapping.price_list_index]: undefined unless the index is an
\* integer position of the array.
PriceRowAt(rows, idx) ==
    IF IsInteger(idx) /\ idx.n >= 0 /\ idx.n < Len(rows) THEN rows[idx.n + 1] ELSE UndefinedRow

Enriched(mapping, rows) ==
    [item_index |-> mapping.item_index,
     price_list_index |-> mapping.price_list_index,
     price_row |-> PriceRowAt(rows, mapping.price_list_index)]

\* for (const mapping of rawMappings) { if (...) continue; mappings.push(...) }
RECURSIVE ValidateLoop(_, _)
ValidateLoop(rawMappings, rows) ==
    IF rawMappings = <<>> THEN <<>>
    ELSE LET mapping == Head(rawMappings)
             rest == ValidateLoop(Tail(rawMappings), rows)
         IN IF IndexOutOfBounds(mapping, rows) THEN rest
            ELSE <<Enriched(mapping, rows)>> \o rest

(***************************************************************************)
(* The oracle's response to comparePreExtractedLists.  form says what the  *)
(* text is: empty (no content), a bare JSON array, a JSON object, a JSON   *)
(* object inside prose, JSON null, another JSON scalar, or text with no    *)
(* JSON in it.  An object has at most one of the keys comparisons, matches *)
(* and result (key); val says whether its value is an array (arr), or a    *)
(* number, string or object ("nonArray"); a bare array is arr too.  The     *)
(* requested shape {"comparisons": [...]} carries arrays up to MaxComps    *)
(* rows, the other envelopes arrays of at most one row.                    *)
(***************************************************************************)
MaxCmpItems == 1    \* longest drawing or BOQ item array
MaxComps == 2       \* longest array of rows in an oracle response

ComparisonStatus ==
    {"match_exact", "match_quantity_diff", "match_unit_diff",
     "missing_in_boq", "missing_in_drawing", "no_match"}

\* A status field of an oracle row: absent, or a string.
NoStatus == [t |-> "undefined", s |-> ""]
StatusStr(s) == [t |-> "string", s |-> s]
StatusValues == {NoStatus, StatusStr("match_exact"), StatusStr("partial_match")}

CmpIndexValues == {Undefined, Null, Num(0), Num(1)}

\* The alternative keys drawing_index and boq_index, which line 308-309 read
\* when the first key is absent: the rows that carry one have no first key.
\* The status of a row is read apart from its indices (line 314): the rows
\* with a status have both indices absent or both 0.
CmpAliasValues == {Undefined, Num(0)}

NullComp ==
    [isNull |-> TRUE, drawing_idx |-> Undefined, drawing_index |-> Undefined,
     boq_idx |-> Undefined, boq_index |-> Undefined, status |-> NoStatus]
ObjectComps ==
    {c \in [isNull : {FALSE}, drawing_idx : CmpIndexValues, drawing_index : CmpAliasValues,
            boq_idx : CmpIndexValues, boq_index : CmpAliasValues, status : StatusValues] :
        /\ (c.drawing_index # Undefined \/ c.boq_index # Undefined) =>
                /\ c.drawing_idx = Undefined
                /\ c.boq_idx = Undefined
                /\ c.status = NoStatus
        /\ c.status # NoStatus =>
                /\ c.drawing_idx = c.boq_idx
                /\ c.drawing_idx \in {Undefined, Num(0)}}
Comps == ObjectComps \cup {NullComp}

EnvelopeKeys == {"comparisons", "matches", "result"}

NoResponse == [form |-> "none", key |-> "none", val |-> "absent", arr |-> <<>>]
CmpResponses ==
    [form : {"object"}, key : {"comparisons"}, val : {"array"},
     arr : SeqsUpTo(Comps, MaxComps)]
    \cup [form : {"array"}, key : {"none"}, val : {"array"}, arr : SeqsUpTo(Comps, 1)]
    \cup [form : {"object", "prose"}, key : EnvelopeKeys, val : {"array"},
          arr : SeqsUpTo(Comps, 1)]
    \cup [form : {"object", "prose"}, key : EnvelopeKeys, val : {"nonArray"}, arr : {<<>>}]
    \cup [form : {"object", "prose", "null", "scalar", "garbage", "empty"},
          key : {"none"}, val : {"absent"}, arr : {<<>>}]

\* What rawContent can be: the oracle's text itself, the JSON of the whole
\* response object (line 291) or the JSON of the error (lines 339-345).
RawText(content) == [kind |-> "content", text |-> content]
RawResponseJson == [kind |-> "responseJson", text |-> NoResponse]
RawErrorJson == [kind |-> "errorJson", text |-> NoResponse]
NoRaw == [kind |-> "none", text |-> NoResponse]

(***************************************************************************)
(* tryParseJson                                                            *)
(***************************************************************************)
EmptyObject == [kind |-> "object", key |-> "none", val |-> "absent", arr |-> <<>>]

\* The value JSON.parse gives, for a text it accepts.
ParsedValue(content) ==
    CASE content.form = "array" ->
            [kind |-> "object", key |-> "comparisons", val |-> "array", arr |-> content.arr]
      [] content.form \in {"object", "prose"} ->
            [kind |-> "object", key |-> content.key, val |-> content.val, arr |-> content.arr]
      [] content.form = "null" ->
            [kind |-> "null", key |-> "none", val |-> "absent", arr |-> <<>>]
      [] OTHER ->
            [kind |-> "scalar", key |-> "none", val |-> "absent", arr |-> <<>>]

tryParseJson(content) ==
    IF content.form \in {"array", "object", "null", "scalar"} THEN ParsedValue(content)
    ELSE IF content.form = "prose" THEN ParsedValue(content)  \* the {...} span parses
    ELSE EmptyObject                                          \* no span, or none that parses

(***************************************************************************)
(* comparePreExtractedLists                                                *)
(***************************************************************************)
NullItem == [kind |-> "null", id |-> 0]
UndefinedItem == [kind |-> "undefined", id |-> 0]

\* parsed.<key>: absent unless the object has that key.
Field(parsed, k) ==
    IF parsed.key = k THEN [val |-> parsed.val, arr |-> parsed.arr]
    ELSE [val |-> "absent", arr |-> <<>>]

\* a ?? b
Coalesce(a, b) == IF a.val = "absent" THEN b ELSE a

\* parsed.comparisons ?? parsed.matches ?? parsed.result ?? []
RawComparisons(parsed) ==
    Coalesce(Field(parsed, "comparisons"),
        Coalesce(Field(parsed, "matches"),
            Coalesce(Field(parsed, "result"), [val |-> "array", arr |-> <<>>])))

\* list[idx] for a number idx: undefined unless idx is a position of the array.
ItemAt(list, idx) ==
    IF IsInteger(idx) /\ idx.n >= 0 /\ idx.n < Len(list) THEN list[idx.n + 1] ELSE UndefinedItem

\* idx !== null && idx !== undefined ? list[idx] : null
ResolveItem(list, idx) ==
    IF idx.t # "null" /\ idx.t # "undefined" THEN ItemAt(list, idx) ELSE NullItem

\* comp.status || "no_match"
StatusOrDefault(status) ==
    IF status.t = "string" /\ status.s # "" THEN status.s ELSE "no_match"

\* a ?? b on index values
IndexOr(a, b) == IF a.t \in {"null", "undefined"} THEN b ELSE a

\* comp.drawing_idx ?? comp.drawing_index
DrawingIdx(comp) == IndexOr(comp.drawing_idx, comp.drawing_index)
\* comp.boq_idx ?? comp.boq_index
BoqIdx(comp) == IndexOr(comp.boq_idx, comp.boq_index)

ToComparisonRow(comp, dItems, bItems) ==
    [drawing_item |-> ResolveItem(dItems, DrawingIdx(comp)),
     boq_item |-> ResolveItem(bItems, BoqIdx(comp)),
     status |-> StatusOrDefault(comp.status)]

RECURSIVE MapComparisons(_, _, _)
MapComparisons(arr, dItems, bItems) ==
    IF arr = <<>> THEN <<>>
    ELSE <<ToComparisonRow(Head(arr), dItems, bItems)>>
         \o MapComparisons(Tail(arr), dItems, bItems)

\* The statements of the try block after the await (lines 287-319) raise a
\* TypeError when parsed is null (parsed.comparisons), when rawComparisons is
\* not an array (rawComparisons.map) and when an element is null
\* (comp.drawing_idx).
TryBlockThrows(content) ==
    LET parsed == tryParseJson(content)
    IN \/ parsed.kind = "null"
       \/ RawComparisons(parsed).val # "array"
       \/ \E i \in 1..Len(RawComparisons(parsed).arr) : RawComparisons(parsed).arr[i].isNull

\* A catch block that logs the error and throws it again.
CatchBlockRethrows == [rejects |-> TRUE, comparisons |-> <<>>, rawContent |-> RawErrorJson]

\* The catch block (lines 320-347): an empty list and the error as JSON.
CatchBlock == [rejects |-> FALSE, comparisons |-> <<>>, rawContent |-> RawErrorJson]

\* What the function settles with once the oracle call has resolved.
CompareOutcome(content, dItems, bItems) ==
    IF content.form = "empty"
    THEN [rejects |-> FALSE, comparisons |-> <<>>, rawContent |-> RawResponseJson]
    ELSE IF TryBlockThrows(content) THEN CatchBlock
    ELSE [rejects |-> FALSE,
          comparisons |-> MapComparisons(RawComparisons(tryParseJson(content)).arr,
                                         dItems, bItems),
          rawContent |-> RawText(content)]

CMP_Idle ==
    /\ cmp_pc = "idle"
    /\ drawingItems = <<>>
    /\ boqItems = <<>>
    /\ cmp_response = NoResponse
    /\ cmp_comparisons = <<>>
    /\ cmp_rawContent = NoRaw
    /\ cmp_calls = 0

(***************************************************************************)
(* The extraction orchestrator: extractAttributesWithOpenAI and            *)
(* extractAttributesFromPdfWithGemini.                                     *)
(***************************************************************************)
MaxCatItems == 2    \* most items in one category's response

DRAWING_CATEGORIES ==
    <<"flooring", "walls_and_ceiling", "custom_items", "graphics", "furniture", "av">>
CategoryIndexes == 1..Len(DRAWING_CATEGORIES)

\* What the service does with one category's call: the call fails ("error"),
\* or it answers; finish is its finish reason ("length": cut at the output
\* limit), json whether the message holds a JSON array that parses, n the
\* number of records in that array (none, or as many as the bound allows).
Pending == [kind |-> "pending", finish |-> "none", json |-> FALSE, n |-> 0]
CallError == [kind |-> "error", finish |-> "none", json |-> FALSE, n |-> 0]
Answer(finish, json, n) == [kind |-> "answer", finish |-> finish, json |-> json, n |-> n]
CategoryResponses ==
    {CallError, Answer("stop", FALSE, 0), Answer("length", TRUE, 1)}
    \cup {Answer("stop", TRUE, n) : n \in {0, MaxCatItems}}

\* The items toItemsArray makes of category c's array of n records.
CategoryItems(c, n) == [k \in 1..n |-> [cat |-> DRAWING_CATEGORIES[c], k |-> k]]

NotSettled == [status |-> "pending", items |-> <<>>, reason |-> "none"]
Fulfilled(its) == [status |-> "fulfilled", items |-> its, reason |-> "none"]
Rejected(why) == [status |-> "rejected", items |-> <<>>, reason |-> why]

\* A callback that never reads the finish reason.
CategoryTaskIgnoresFinish(variant, c, response) ==
    IF response.kind = "error" THEN Rejected("call failed")
    ELSE IF ~response.json THEN Rejected("no JSON")
    ELSE Fulfilled(CategoryItems(c, response.n))

\* The async callback of DRAWING_CATEGORIES.map for category c, from the
\* service's answer on: the promise it settles with.  Only the text variant
\* reads finish_reason.
CategoryTask(variant, c, response) ==
    IF response.kind = "error" THEN Rejected("call failed")
    ELSE IF variant = "openai" /\ response.finish = "length" THEN Rejected("truncated")
    ELSE IF ~response.json THEN Rejected("no JSON")   \* parseJsonFromMessage throws
    ELSE Fulfilled(CategoryItems(c, response.n))

\* Promise.all instead: resolved when all are fulfilled, rejected at the first
\* rejection.
AllSettledOrFirstRejected(tasks) ==
    \/ \A c \in CategoryIndexes : tasks[c].status = "fulfilled"
    \/ \E c \in CategoryIndexes : tasks[c].status = "rejected"

\* Promise.allSettled: the aggregate promise resolves once no task is pending.
AllSettled(tasks) == \A c \in CategoryIndexes : tasks[c].status # "pending"

\* The items of the fulfilled tasks, taken in the order of `order`.
RECURSIVE ItemsInOrder(_, _)
ItemsInOrder(tasks, order) ==
    IF order = <<>> THEN <<>>
    ELSE (IF tasks[Head(order)].status = "fulfilled" THEN tasks[Head(order)].items ELSE <<>>)
         \o ItemsInOrder(tasks, Tail(order))

\* A collection that starts with the category that answered first.
CombinedItemsFirstSettledFirst(tasks, index) ==
    ItemsInOrder(tasks, <<ex_first>> \o SelectSeq([c \in CategoryIndexes |-> c],
                                                  LAMBDA c : c # ex_first))

\* A loop that gives up at the first rejected category, as Promise.all would.
RECURSIVE CombinedItemsUntilRejection(_, _)
CombinedItemsUntilRejection(tasks, index) ==
    IF index > Len(DRAWING_CATEGORIES) THEN <<>>
    ELSE IF tasks[index].status = "fulfilled"
         THEN tasks[index].items \o CombinedItemsUntilRejection(tasks, index + 1)
         ELSE <<>>

\* categoryResponses.forEach(...): combinedItems, from position index on.
RECURSIVE CombinedItems(_, _)
CombinedItems(tasks, index) ==
    IF index > Len(DRAWING_CATEGORIES) THEN <<>>
    ELSE IF tasks[index].status = "fulfilled"
         THEN tasks[index].items \o CombinedItems(tasks, index + 1)
         ELSE CombinedItems(tasks, index + 1)

\* categoryResponses.forEach(...): errors, one "<label>: <reason>" per
\* rejected category, from position index on.
RECURSIVE CollectedErrors(_, _)
CollectedErrors(tasks, index) ==
    IF index > Len(DRAWING_CATEGORIES) THEN <<>>
    ELSE IF tasks[index].status = "fulfilled"
         THEN CollectedErrors(tasks, index + 1)
         ELSE <<[cat |-> DRAWING_CATEGORIES[index], reason |-> tasks[index].reason]>>
              \o CollectedErrors(tasks, index + 1)

\* structuredItemsToAttributeMap: the keys of the map it builds.  Every item
\* is stored under a label (item_number, item_no, description or "Item <n>");
\* two items of one label share a key, so the map is empty exactly when there
\* is no item.
ItemLabel(its, index) == [cat |-> its[index].cat, k |-> its[index].k]
structuredItemsToAttributeMap(its) == {ItemLabel(its, index) : index \in DOMAIN its}

\* parseDocument's test: !result.attributes || Object.keys(...).length === 0.
AttributesAreEmpty(attributes) == Cardinality(attributes) = 0

\* DRAWING_CATEGORIES.map(async ...): each callback runs up to its await,
\* which sends the request of its category.
CallsIssued(calls) == [c \in CategoryIndexes |-> calls[c] + 1]

\* A callback that sends its request again when its task rejects.
CallsWithRetry(calls, c, task) ==
    IF task.status = "rejected" THEN [calls EXCEPT ![c] = calls[c] + 1] ELSE calls
\* The rest of a callback after its await (parse, coerce, return or throw)
\* sends nothing, whatever the task settles to.
CallsAfterSettle(calls, c, task) == calls

EX_Idle ==
    /\ ex_pc = "idle"
    /\ ex_variant = "none"
    /\ ex_response = [c \in CategoryIndexes |-> Pending]
    /\ ex_task = [c \in CategoryIndexes |-> NotSettled]
    /\ ex_items = <<>>
    /\ ex_errors = <<>>
    /\ ex_first = 0
    /\ ex_calls = [c \in CategoryIndexes |-> 0]
    /\ pd_pc = "idle"

(***************************************************************************)
(* normalizeSize and categorizeItem of the Price Mapping Engine.  A string *)
(* is a sequence of one-character strings; the regular expressions are     *)
(* matched as the engine matches them: leftmost start first, and for one   *)
(* start the alternatives in their order, greedy before shorter.           *)
(***************************************************************************)
MaxSizeLen == 4     \* longest size string drawn from SizeAlphabet

Digits == {"0", "1", "2", "3", "4", "5", "6", "7", "8", "9"}
AsciiUpper == <<"A", "B", "C", "D", "E", "F", "G", "H", "I", "J", "K", "L", "M", "N", "O", "P", "Q", "R", "S", "T", "U", "V", "W", "X", "Y", "Z">>
AsciiLower == <<"a", "b", "c", "d", "e", "f", "g", "h", "i", "j", "k", "l", "m", "n", "o", "p", "q", "r", "s", "t", "u", "v", "w", "x", "y", "z">>
UpperCase == AsciiUpper \o <<"Oslash">>
LowerCase == AsciiLower \o <<"oslash">>
\* "Oslash" and "oslash" are the one-character strings of the diameter sign,
\* upper and lower case.  \w: letters, digits and the underscore; the diameter
\* sign is not one.
WordChars == Digits \cup {AsciiUpper[i] : i \in DOMAIN AsciiUpper}
                    \cup {AsciiLower[i] : i \in DOMAIN AsciiLower} \cup {"_"}
WhiteSpace == {" "}

MinOf(S) == CHOOSE x \in S : \A y \in S : x <= y
MaxOf(S) == CHOOSE x \in S : \A y \in S : x >= y

\* The argument when the caller passes no size (item.size is undefined).
UndefinedSize == <<"undefined">>
\* The null a failed String.prototype.match returns.
NoMatch == <<"null">>

toLowerCaseChar(ch) ==
    IF \E i \in DOMAIN UpperCase : UpperCase[i] = ch
    THEN LowerCase[CHOOSE i \in DOMAIN UpperCase : UpperCase[i] = ch]
    ELSE ch
toLowerCase(s) == [i \in DOMAIN s |-> toLowerCaseChar(s[i])]

trim(s) ==
    LET kept == {i \in DOMAIN s : s[i] \notin WhiteSpace}
    IN IF kept = {} THEN <<>> ELSE SubSeq(s, MinOf(kept), MaxOf(kept))

CharAt(s, i) == IF i \in DOMAIN s THEN s[i] ELSE ""
IsDigitAt(s, i) == CharAt(s, i) \in Digits
IsWordAt(s, i) == CharAt(s, i) \in WordChars
StartsWithAt(s, i, word) ==
    /\ i >= 1
    /\ i + Len(word) - 1 <= Len(s)
    /\ SubSeq(s, i, i + Len(word) - 1) = word

\* \d+ from position i (a digit): the last position of the longest run.  A
\* shorter run is followed by a digit, which nothing after \d+ accepts.
DigitRunEnd(s, i) ==
    CHOOSE j \in i..Len(s) : (\A k \in i..j : s[k] \in Digits) /\ ~IsDigitAt(s, j + 1)

\* \s* from position i: the first position after the white space.
SkipSpaces(s, i) ==
    CHOOSE p \in i..(Len(s) + 1) :
        (\A k \in i..(p - 1) : s[k] \in WhiteSpace) /\ CharAt(s, p) \notin WhiteSpace

\* /(\d+)\s*mm/i on lower-cased text: group 1, or NoMatch.
MmMatchAt(s, i) ==
    /\ IsDigitAt(s, i)
    /\ StartsWithAt(s, SkipSpaces(s, DigitRunEnd(s, i) + 1), <<"m", "m">>)
mmMatch(s) ==
    LET starts == {i \in DOMAIN s : MmMatchAt(s, i)}
    IN IF starts = {} THEN NoMatch
       ELSE SubSeq(s, MinOf(starts), DigitRunEnd(s, MinOf(starts)))

\* (?:oslash|Oslash|DN) at position i of lower-cased text: its length, 0 when absent.
SizePrefixLen(s, i) ==
    IF CharAt(s, i) = "oslash" THEN 1
    ELSE IF StartsWithAt(s, i, <<"d", "n">>) THEN 2
    ELSE 0

\* (?:"|''|inch|in)\b at position p.  After a quote mark \b needs a word
\* character next; after inch or in it needs the end or a non-word character.
InchUnitAt(s, p) ==
    \/ CharAt(s, p) = "\"" /\ IsWordAt(s, p + 1)
    \/ StartsWithAt(s, p, <<"'", "'">>) /\ IsWordAt(s, p + 2)
    \/ StartsWithAt(s, p, <<"i", "n", "c", "h">>) /\ ~IsWordAt(s, p + 4)
    \/ StartsWithAt(s, p, <<"i", "n">>) /\ ~IsWordAt(s, p + 2)
UnitFollows(s, e) == InchUnitAt(s, SkipSpaces(s, e + 1))

\* \d+[.-]\d+\/\d+ from position g: its last position, 0 when it does not match.
MixedFractionEnd(s, g) ==
    IF /\ IsDigitAt(s, g)
       /\ CharAt(s, DigitRunEnd(s, g) + 1) \in {".", "-"}
       /\ IsDigitAt(s, DigitRunEnd(s, g) + 2)
       /\ CharAt(s, DigitRunEnd(s, DigitRunEnd(s, g) + 2) + 1) = "/"
       /\ IsDigitAt(s, DigitRunEnd(s, DigitRunEnd(s, g) + 2) + 2)
    THEN DigitRunEnd(s, DigitRunEnd(s, DigitRunEnd(s, g) + 2) + 2)
    ELSE 0

\* \d+\/\d+ from position g: its last position, 0 when it does not match.
SimpleFractionEnd(s, g) ==
    IF /\ IsDigitAt(s, g)
       /\ CharAt(s, DigitRunEnd(s, g) + 1) = "/"
       /\ IsDigitAt(s, DigitRunEnd(s, g) + 2)
    THEN DigitRunEnd(s, DigitRunEnd(s, g) + 2)
    ELSE 0

\* Group 1 of the first inch pattern when it starts at g: \d+(?:[.-]\d+\/\d+)?
\* with the fraction, then without it, then \d+\/\d+; the first that is
\* followed by \s* and a unit.  0 when none is.
InchGroupEnd(s, g) ==
    IF ~IsDigitAt(s, g) THEN 0
    ELSE IF MixedFractionEnd(s, g) # 0 /\ UnitFollows(s, MixedFractionEnd(s, g))
         THEN MixedFractionEnd(s, g)
    ELSE IF UnitFollows(s, DigitRunEnd(s, g)) THEN DigitRunEnd(s, g)
    ELSE IF SimpleFractionEnd(s, g) # 0 /\ UnitFollows(s, SimpleFractionEnd(s, g))
         THEN SimpleFractionEnd(s, g)
    ELSE 0

\* /(?:oslash|Oslash|DN)?(\d+(?:[.-]\d+\/\d+)?|\d+\/\d+)\s*(?:"|''|inch|in)\b/i:
\* group 1, or NoMatch.
inchUnitMatch(s) ==
    LET starts == {i \in DOMAIN s : InchGroupEnd(s, i + SizePrefixLen(s, i)) # 0}
        g == MinOf(starts) + SizePrefixLen(s, MinOf(starts))
    IN IF starts = {} THEN NoMatch ELSE SubSeq(s, g, InchGroupEnd(s, g))

\* Group 1 of the second inch pattern when it starts at g: \d+(?:\.\d+)?\b.
PrefixedGroupEnd(s, g) ==
    IF ~IsDigitAt(s, g) THEN 0
    ELSE IF /\ CharAt(s, DigitRunEnd(s, g) + 1) = "."
            /\ IsDigitAt(s, DigitRunEnd(s, g) + 2)
            /\ ~IsWordAt(s, DigitRunEnd(s, DigitRunEnd(s, g) + 2) + 1)
         THEN DigitRunEnd(s, DigitRunEnd(s, g) + 2)
    ELSE IF ~IsWordAt(s, DigitRunEnd(s, g) + 1) THEN DigitRunEnd(s, g)
    ELSE 0

\* /(?:oslash|Oslash|DN)(\d+(?:\.\d+)?)\b/i: group 1, or NoMatch.
prefixedMatch(s) ==
    LET starts == {i \in DOMAIN s :
                      /\ SizePrefixLen(s, i) > 0
                      /\ PrefixedGroupEnd(s, i + SizePrefixLen(s, i)) # 0}
        g == MinOf(starts) + SizePrefixLen(s, MinOf(starts))
    IN IF starts = {} THEN NoMatch ELSE SubSeq(s, g, PrefixedGroupEnd(s, g))

\* /^(\d+(?:\.\d+)?)\s*$/ on the size as given: group 1, or NoMatch.
numMatch(s) ==
    IF ~IsDigitAt(s, 1) THEN NoMatch
    ELSE IF /\ CharAt(s, DigitRunEnd(s, 1) + 1) = "."
            /\ IsDigitAt(s, DigitRunEnd(s, 1) + 2)
            /\ SkipSpaces(s, DigitRunEnd(s, DigitRunEnd(s, 1) + 2) + 1) = Len(s) + 1
         THEN SubSeq(s, 1, DigitRunEnd(s, DigitRunEnd(s, 1) + 2))
    ELSE IF SkipSpaces(s, DigitRunEnd(s, 1) + 1) = Len(s) + 1
         THEN SubSeq(s, 1, DigitRunEnd(s, 1))
    ELSE NoMatch

\* match[1].replace("-", "."): the first "-" only.
replaceDash(s) ==
    LET dashes == {i \in DOMAIN s : s[i] = "-"}
    IN IF dashes = {} THEN s ELSE [s EXCEPT ![MinOf(dashes)] = "."]

INCH_TO_MM ==
    <<
      [key |-> <<"0", ".", "5">>, mm |-> 15],
      [key |-> <<"1", "/", "2">>, mm |-> 15],
      [key |-> <<"0", ".", "7", "5">>, mm |-> 20],
      [key |-> <<"3", "/", "4">>, mm |-> 20],
      [key |-> <<"1">>, mm |-> 25],
      [key |-> <<"1", ".", "2", "5">>, mm |-> 32],
      [key |-> <<"1", "-", "1", "/", "4">>, mm |-> 32],
      [key |-> <<"1", ".", "5">>, mm |-> 40],
      [key |-> <<"1", "-", "1", "/", "2">>, mm |-> 40],
      [key |-> <<"2">>, mm |-> 50],
      [key |-> <<"2", ".", "5">>, mm |-> 65],
      [key |-> <<"2", "-", "1", "/", "2">>, mm |-> 65],
      [key |-> <<"3">>, mm |-> 80],
      [key |-> <<"4">>, mm |-> 100],
      [key |-> <<"5">>, mm |-> 125],
      [key |-> <<"6">>, mm |-> 150],
      [key |-> <<"8">>, mm |-> 200],
      [key |-> <<"1", "0">>, mm |-> 250],
      [key |-> <<"1", "2">>, mm |-> 300]
    >>

\* INCH_TO_MM[key]; 0 stands for the undefined of a missing key.
InchToMm(key) ==
    LET hits == {i \in DOMAIN INCH_TO_MM : INCH_TO_MM[i].key = key}
    IN IF hits = {} THEN 0 ELSE INCH_TO_MM[MinOf(hits)].mm

\* `${number}`: the decimal digits of a natural number.
DigitChars == <<"0", "1", "2", "3", "4", "5", "6", "7", "8", "9">>
RECURSIVE NumberToString(_)
NumberToString(n) ==
    IF n < 10 THEN <<DigitChars[n + 1]>>
    ELSE NumberToString(n \div 10) \o <<DigitChars[(n % 10) + 1]>>

\* The mm branch without its unit.
MmTextWithoutUnit(digits) == digits

\* `${mmMatch[1]}mm`
MmText(digits) == digits \o <<"m", "m">>

\* `${mm}mm`
TableText(mm) == NumberToString(mm) \o <<"m", "m">>

\* The loop over inchPatterns: the mm of the first pattern whose group is a
\* key of the table, 0 when neither is.
InchPatternMm(lower) ==
    LET first == inchUnitMatch(lower)
        second == prefixedMatch(lower)
        firstMm == IF first = NoMatch THEN 0 ELSE InchToMm(replaceDash(first))
        secondMm == IF second = NoMatch THEN 0 ELSE InchToMm(replaceDash(second))
    IN IF firstMm # 0 THEN firstMm ELSE secondMm

NumericMm(size) == IF numMatch(size) = NoMatch THEN 0 ELSE InchToMm(numMatch(size))

\* A last return that hands back the cleaned-up text.
ReturnLower(size, lower) == lower

\* return size;
ReturnSize(size, lower) == size

\* normalizeSize, with the return statement that was taken.
Normalized(size) ==
    IF size = UndefinedSize \/ size = <<>> THEN [rule |-> "empty", text |-> <<>>]
    ELSE LET lower == trim(toLowerCase(size))
         IN IF mmMatch(lower) # NoMatch
            THEN [rule |-> "mm", text |-> MmText(mmMatch(lower))]
            ELSE IF InchPatternMm(lower) # 0
            THEN [rule |-> "inch", text |-> TableText(InchPatternMm(lower))]
            ELSE IF NumericMm(size) # 0
            THEN [rule |-> "numeric", text |-> TableText(NumericMm(size))]
            ELSE [rule |-> "unchanged", text |-> ReturnSize(size, lower)]

normalizeSize(size) == Normalized(size).text

\* The size strings the function is applied to: every string over
\* SizeAlphabet up to MaxSizeLen, and every written form of a table size
\* (these bring the fractions, "1/2in" and "1-1/2 inch").
SizeAlphabet == {"1", "2", ".", "\"", " ", "i", "n", "m", "D", "oslash"}
SizeStrings == SeqsUpTo(SizeAlphabet, MaxSizeLen)
NominalSizes == {INCH_TO_MM[i].key : i \in {j \in DOMAIN INCH_TO_MM :
                                             \A k \in DOMAIN INCH_TO_MM[j].key :
                                                 INCH_TO_MM[j].key[k] # "."}}
DecimalKeys == {INCH_TO_MM[i].key : i \in {j \in DOMAIN INCH_TO_MM :
                                            \A k \in DOMAIN INCH_TO_MM[j].key :
                                                INCH_TO_MM[j].key[k] \in Digits \cup {"."}}}
InchForms(n) ==
    { n \o <<"\"">>,
      <<"Oslash">> \o n \o <<"\"">>,
      <<"D", "N">> \o n,
      n \o <<" ", "i", "n", "c", "h">>,
      n \o <<"i", "n">> }
TableForms == UNION {InchForms(n) : n \in NominalSizes} \cup DecimalKeys
SizeInputs == {UndefinedSize} \cup SizeStrings \cup TableForms
NotCalled == <<"not called">>

NS_Idle ==
    /\ ns_pc = "idle"
    /\ ns_size = <<>>
    /\ ns_result = NotCalled
    /\ ns_again = NotCalled

(***************************************************************************)
(* categorizeItem.  A text field is known by the keyword phrases that      *)
(* occur in it, each written in lower or in upper case; no keyword is part *)
(* of another, so every set of occurrences is the content of some text.    *)
(* "bv" and "cv" stand for occurrences as whole words (\bbv\b, \bcv\b).    *)
(***************************************************************************)
MaxPhrases == 2     \* most keyword occurrences in one description

Keywords ==
    {"storage tank", "day tank", "pump", "filling point", "fill point", "bv",
     "ball valve", "cv", "check valve", "gate valve", "strainer", "pipe", "piping",
     "flexible", "hose", "vent", "leak", "sensor", "level", "probe", "switch",
     "indicator", "control panel", "mcp", "conduit", "wiring", "cable"}

Occurrences == [phrase : Keywords \cup {"bracket"}, upper : BOOLEAN]

RECURSIVE SubsetsUpTo(_, _)
SubsetsUpTo(S, n) ==
    IF n = 0 THEN {{}}
    ELSE SubsetsUpTo(S, n - 1) \cup {T \cup {x} : T \in SubsetsUpTo(S, n - 1), x \in S}

UndefinedText == [defined |-> FALSE, found |-> {}]
Text(occurrences) == [defined |-> TRUE, found |-> occurrences]
EmptyText == Text({})

\* a ?? b
OrElse(a, b) == IF a.defined THEN a ELSE b

\* text.toLowerCase(): the phrases of the lower-cased text.
LowerCasePhrases(text) == {o.phrase : o \in text.found}

\* The chain of tests of categorizeItem on the lower-cased texts.
CategoryOf(desc, itemType) ==
    IF "storage tank" \in desc \/ "storage tank" \in itemType THEN "STORAGE_TANK"
    ELSE IF "day tank" \in desc \/ "day tank" \in itemType THEN "DAY_TANK"
    ELSE IF "pump" \in desc \/ "pump" \in itemType THEN "PUMP"
    ELSE IF "filling point" \in desc \/ "fill point" \in desc THEN "FILLING_POINT"
    ELSE IF "bv" \in desc \/ "ball valve" \in desc THEN "BALL_VALVE"
    ELSE IF "cv" \in desc \/ "check valve" \in desc THEN "CHECK_VALVE"
    ELSE IF "gate valve" \in desc THEN "GATE_VALVE"
    ELSE IF "strainer" \in desc THEN "STRAINER"
    ELSE IF "pipe" \in desc \/ "piping" \in desc THEN "PIPE"
    ELSE IF "flexible" \in desc \/ "hose" \in desc THEN "FLEXIBLE_HOSE"
    ELSE IF "vent" \in desc THEN "VENT"
    ELSE IF "leak" \in desc \/ "sensor" \in desc THEN "SENSOR"
    ELSE IF "level" \in desc /\ ("probe" \in desc \/ "switch" \in desc \/ "indicator" \in desc)
         THEN "LEVEL_DEVICE"
    ELSE IF "control panel" \in desc \/ "mcp" \in desc THEN "CONTROL_PANEL"
    ELSE IF "conduit" \in desc \/ "wiring" \in desc \/ "cable" \in desc THEN "ELECTRICAL"
    ELSE "OTHER"

\* A chain that tests the check valve before the ball valve.
categorizeItemCheckValveFirst(it) ==
    LET desc == LowerCasePhrases(OrElse(it.description, OrElse(it.full_description, EmptyText)))
        itemType == LowerCasePhrases(OrElse(it.item_type, EmptyText))
    IN IF CategoryOf(desc, itemType) = "BALL_VALVE" /\ ("cv" \in desc \/ "check valve" \in desc)
       THEN "CHECK_VALVE"
       ELSE CategoryOf(desc, itemType)

categorizeItem(it) ==
    CategoryOf(LowerCasePhrases(OrElse(it.description, OrElse(it.full_description, EmptyText))),
               LowerCasePhrases(OrElse(it.item_type, EmptyText)))

Descriptions == {Text(found) : found \in SubsetsUpTo(Occurrences, MaxPhrases)}
FullDescriptions ==
    {UndefinedText, EmptyText,
     Text({[phrase |-> "pump", upper |-> FALSE]}),
     Text({[phrase |-> "cable", upper |-> TRUE]})}
ItemTypes ==
    {UndefinedText, EmptyText,
     Text({[phrase |-> "pump", upper |-> FALSE]}),
     Text({[phrase |-> "pump", upper |-> TRUE]}),
     Text({[phrase |-> "storage tank", upper |-> FALSE]}),
     Text({[phrase |-> "day tank", upper |-> FALSE]})}
NoItem == [description |-> UndefinedText, full_description |-> UndefinedText,
           item_type |-> UndefinedText]
CategorizedItems ==
    {[description |-> d, full_description |-> UndefinedText, item_type |-> t] :
        d \in Descriptions, t \in ItemTypes}
    \cup {[description |-> UndefinedText, full_description |-> f, item_type |-> t] :
        f \in FullDescriptions, t \in ItemTypes}

CAT_Idle ==
    /\ cat_pc = "idle"
    /\ cat_item = NoItem
    /\ cat_result = "none"

(***************************************************************************)
(* parseJsonFromMessage (src/unnamed/part_004, lines 210-218).  A message *)
(* is a sequence of tokens: a word of prose, the four bracket characters  *)
(* and an object key with its colon.  The JSON texts over these tokens    *)
(* are the arrays and objects built from [], [v], {} and {"k":v}.         *)
(***************************************************************************)
MaxMsgLen == 6      \* longest message, in tokens

MsgTokens == {"word", "[", "]", "{", "}", "key"}
Messages == SeqsUpTo(MsgTokens, MaxMsgLen)

JsonArray(elems) == [t |-> "array", elems |-> elems]
JsonObject(elems) == [t |-> "object", elems |-> elems]

NoParse == [ok |-> FALSE, next |-> 0, val |-> JsonArray(<<>>)]
Parsed(val, next) == [ok |-> TRUE, next |-> next, val |-> val]

TokenAt(m, i) == IF i >= 1 /\ i <= Len(m) THEN m[i] ELSE "end"

\* The JSON value that starts at token i of m, and the position after it.
RECURSIVE ParseValue(_, _)
ParseValue(m, i) ==
    IF TokenAt(m, i) = "[" THEN
        IF TokenAt(m, i + 1) = "]" THEN Parsed(JsonArray(<<>>), i + 2)
        ELSE LET e == ParseValue(m, i + 1)
             IN IF e.ok /\ TokenAt(m, e.next) = "]"
                THEN Parsed(JsonArray(<<e.val>>), e.next + 1)
                ELSE NoParse
    ELSE IF TokenAt(m, i) = "{" THEN
        IF TokenAt(m, i + 1) = "}" THEN Parsed(JsonObject(<<>>), i + 2)
        ELSE IF TokenAt(m, i + 1) = "key" THEN
            LET e == ParseValue(m, i + 2)
            IN IF e.ok /\ TokenAt(m, e.next) = "}"
               THEN Parsed(JsonObject(<<e.val>>), e.next + 1)
               ELSE NoParse
        ELSE NoParse
    ELSE NoParse

PJ_Returned(val) == [outcome |-> "returned", error |-> "", val |-> val]
PJ_Threw(error) == [outcome |-> "threw", error |-> error, val |-> JsonArray(<<>>)]
PJ_NotCalled == [outcome |-> "not called", error |-> "", val |-> JsonArray(<<>>)]

\* JSON.parse(text)
JsonParse(text) ==
    LET p == ParseValue(text, 1)
    IN IF p.ok /\ p.next = Len(text) + 1 THEN PJ_Returned(p.val) ELSE PJ_Threw("SyntaxError")

NoSpan == <<>>
\* message.match(/<open>[\s\S]*<close>/)?.[0]: from the first <open> that has
\* a <close> after it to the last <close> of the message.
SpanMatch(message, open, close) ==
    LET closes == {j \in 1..Len(message) : message[j] = close}
        opens == {i \in 1..Len(message) : message[i] = open /\ \E j \in closes : j > i}
    IN IF opens = {} THEN NoSpan
       ELSE SubSeq(message, MinOf(opens), MaxOf(closes))

arrayMatch(message) == SpanMatch(message, "[", "]")
objectMatch(message) == SpanMatch(message, "{", "}")

\* arrayMatch?.[0] ?? objectMatch?.[0]
jsonMatch(message) ==
    IF arrayMatch(message) # NoSpan THEN arrayMatch(message) ELSE objectMatch(message)

parseJsonFromMessage(message) ==
    IF jsonMatch(message) = NoSpan THEN PJ_Threw("OpenAI response did not include JSON")
    ELSE JsonParse(jsonMatch(message))

PJ_Idle ==
    /\ pj_pc = "idle"
    /\ pj_message = <<>>
    /\ pj_result = PJ_NotCalled

(***************************************************************************)
(* toItemsArray (src/unnamed/part_004, lines 220-287).  A JSON value is   *)
(* known by its type and truthiness; a record also by its description,    *)
(* an optional string of characters.                                      *)
(***************************************************************************)
MaxPayloadLen == 3  \* longest payload array

NoText == <<"undefined">>
\* record.description: absent, blank, or a text (with blanks around it).
DescriptionValues == {NoText, <<" ">>, <<"a">>, <<" ", "b">>}

JsonNull == [t |-> "null", truthy |-> FALSE, description |-> NoText]
JsonPrimitives ==
    [t : {"number", "string", "boolean"}, truthy : BOOLEAN, description : {NoText}]
JsonEmptyArray == [t |-> "array", truthy |-> TRUE, description |-> NoText]
JsonRecord(desc) == [t |-> "record", truthy |-> TRUE, description |-> desc]
JsonRecords == {JsonRecord(desc) : desc \in DescriptionValues}
PayloadElements == {JsonNull, JsonEmptyArray} \cup JsonPrimitives \cup JsonRecords

\* typeof value
TypeOf(value) == IF value.t \in {"null", "array", "record"} THEN "object" ELSE value.t
\* Array.isArray(value)
IsArray(value) == value.t = "array"

\* The payloads: an array, an object with or without an `items` field, null
\* and the primitives.  arr is the payload, or its `items` field when that is
\* an array.
ArrayPayload(arr) == [t |-> "array", truthy |-> TRUE, hasItems |-> FALSE, itemsIsArray |-> FALSE, arr |-> arr]
ObjectPayload(arr) == [t |-> "object", truthy |-> TRUE, hasItems |-> TRUE, itemsIsArray |-> TRUE, arr |-> arr]
OtherPayloads ==
    [t : {"object"}, truthy : {TRUE}, hasItems : BOOLEAN, itemsIsArray : {FALSE}, arr : {<<>>}]
    \cup [t : {"null"}, truthy : {FALSE}, hasItems : {FALSE}, itemsIsArray : {FALSE}, arr : {<<>>}]
    \cup [t : {"string", "number"}, truthy : BOOLEAN, hasItems : {FALSE}, itemsIsArray : {FALSE},
          arr : {<<>>}]
Payloads ==
    {ArrayPayload(arr) : arr \in SeqsUpTo(PayloadElements, MaxPayloadLen)}
    \cup {ObjectPayload(arr) : arr \in SeqsUpTo(PayloadElements, MaxPayloadLen)}
    \cup OtherPayloads

\* toOptionalString on a description: undefined when it is absent or blank,
\* the trimmed text otherwise.
toOptionalString(value) ==
    IF value = NoText THEN NoText
    ELSE IF trim(value) = <<>> THEN NoText
    ELSE trim(value)

\* The object the map callback returns for a record.
ExtractedItem(record) == [description |-> toOptionalString(record.description)]

\* The filter that also lets arrays through (typeof [] is "object").
IsObjectElement(item) == item.truthy /\ TypeOf(item) = "object"
\* !!item && typeof item === "object" && !Array.isArray(item)
IsPlainRecord(item) == item.truthy /\ TypeOf(item) = "object" /\ ~IsArray(item)

\* The array the function works on (lines 233-238), or none.
PayloadItems(payload) ==
    IF payload.t = "array" THEN [isArray |-> TRUE, arr |-> payload.arr]
    ELSE IF payload.truthy /\ payload.t = "object" /\ payload.hasItems
         THEN [isArray |-> payload.itemsIsArray, arr |-> payload.arr]
    ELSE [isArray |-> FALSE, arr |-> <<>>]

RECURSIVE MapRecords(_)
MapRecords(records) ==
    IF records = <<>> THEN <<>>
    ELSE <<ExtractedItem(Head(records))>> \o MapRecords(Tail(records))

toItemsArray(payload) ==
    IF ~PayloadItems(payload).isArray THEN <<>>
    ELSE MapRecords(SelectSeq(PayloadItems(payload).arr, IsPlainRecord))

TI_NotCalled == <<[description |-> <<"not called">>]>>

TI_Idle ==
    /\ ti_pc = "idle"
    /\ ti_payload = ArrayPayload(<<>>)
    /\ ti_result = TI_NotCalled

(***************************************************************************)
(* waitForFileReady (src/unnamed/part_006, lines 79-107).  Time is        *)
(* counted in poll intervals (pollIntervalMs); a message is a sequence of *)
(* words.                                                                  *)
(***************************************************************************)
MaxWaitTicks == 3   \* largest maxWaitMs, in poll intervals

\* How long ai.files.get takes to settle, in poll intervals.
PollLatencies == {0, 1}
\* The delay of setTimeout(resolve, pollIntervalMs), in poll intervals.
pollInterval == 1

NoMessage == <<"undefined">>
\* file.error?.message of a file in state FAILED: absent, or a text.
FileErrorMessages == {NoMessage, <<"unsupported", "document">>, <<"conversion", "FAILED">>}
\* The message of an error ai.files.get rejects with.
SdkErrorMessages == {NoMessage, <<"not", "found">>, <<"FAILED_PRECONDITION">>}

\* What one poll gives: the file in a state, or a rejection.
PollOutcomes ==
    [kind : {"file"}, state : {"ACTIVE", "PROCESSING", "STATE_UNSPECIFIED"}, message : {NoMessage}]
    \cup [kind : {"file"}, state : {"FAILED"}, message : FileErrorMessages]
    \cup [kind : {"error"}, state : {"none"}, message : SdkErrorMessages]
NoPoll == [kind |-> "none", state |-> "none", message |-> NoMessage]

\* `File processing failed: ${file.error?.message || "Unknown error"}`
FailedMessage(fileMessage) ==
    <<"File", "processing", "failed:">>
        \o (IF fileMessage = NoMessage THEN <<"Unknown", "error">> ELSE fileMessage)

\* A word holds the text FAILED (upper case, as includes compares).
WordHasFAILED(word) == word \in {"FAILED", "FAILED_PRECONDITION"}
\* err.message?.includes("FAILED")
IncludesFAILED(message) ==
    message # NoMessage /\ \E i \in DOMAIN message : WordHasFAILED(message[i])

\* The error that reaches the catch block, if any.
NoError == <<"none">>
ThrownInTry(outcome) ==
    IF outcome.kind = "error" THEN outcome.message
    ELSE IF outcome.state = "FAILED" THEN FailedMessage(outcome.message)
    ELSE NoError

TimeoutMessage == <<"Timeout", "waiting", "for", "file", "to", "be", "ready">>

\* Date.now() - startTime < maxWaitMs
WithinWait(elapsed, maxWait) == elapsed < maxWait

\* One pass of the loop body after the poll settled: where the function
\* goes and the error it rejects with.
AfterPoll(outcome) ==
    IF outcome.kind = "file" /\ outcome.state = "ACTIVE"
        THEN [pc |-> "resolved", error |-> NoError]
    ELSE IF ThrownInTry(outcome) # NoError /\ IncludesFAILED(ThrownInTry(outcome))
        THEN [pc |-> "rejected", error |-> ThrownInTry(outcome)]
    ELSE [pc |-> "sleeping", error |-> NoError]

\* A timer that resolves at once.
ElapsedWithoutSleep(elapsed) == elapsed
\* The clock after await new Promise((resolve) => setTimeout(resolve, pollIntervalMs)).
ElapsedAfterSleep(elapsed) == elapsed + pollInterval

WAIT_Idle ==
    /\ wf_pc = "idle"
    /\ wf_maxWait = 0
    /\ wf_elapsed = 0
    /\ wf_poll = NoPoll
    /\ wf_error = NoError

(***************************************************************************)
(* PUT /drawing-extraction (src/src/routes/prompts.ts, lines 54-100).     *)
(* A stored prompt is known by its key: 0 for the base prompt             *)
(* (DRAWING_PROMPT_KEY), 1..6 for the categories in declaration order.    *)
(***************************************************************************)
BaseKey == 0
PromptKeys == {BaseKey} \cup CategoryIndexes

\* A value of the request body: absent, a number, or a string of characters.
BodyUndefined == [t |-> "undefined", s |-> <<>>]
BodyNumber == [t |-> "number", s |-> <<"7">>]
BodyString(s) == [t |-> "string", s |-> s]
\* req.body.prompt
PromptValues == {BodyUndefined, BodyNumber, BodyString(<<" ">>), BodyString(<<"p">>)}
\* categories[key]
CategoryValues == {BodyUndefined, BodyNumber, BodyString(<<"c">>)}
\* req.body.categories: absent, null, a string, or an object.
NoCategories == [key \in CategoryIndexes |-> BodyUndefined]
CategoriesValues ==
    [t : {"undefined", "null", "string"}, fields : {NoCategories}]
    \cup [t : {"object"}, fields : [CategoryIndexes -> CategoryValues]]
Requests == [prompt : PromptValues, categories : CategoriesValues]
NoRequest == [prompt |-> BodyUndefined, categories |-> [t |-> "undefined", fields |-> NoCategories]]

\* The stored prompts: per key, no row or the content of the row.
NotStored == <<"not stored">>
EmptyStore == [key \in PromptKeys |-> NotStored]
SeededStore == [key \in PromptKeys |-> <<"o", "l", "d">>]

\* typeof prompt === "string"
hasPromptUpdate(request) == request.prompt.t = "string"
\* categories && typeof categories === "object"
hasCategoriesUpdate(request) == request.categories.t = "object"
\* !prompt.trim()
IsBlank(value) == trim(value.s) = <<>>

\* Where the handler goes after the checks of lines 61-63 and 65-68, or
\* after the loop when there is nothing (more) to write.
AfterBasePrompt(request) == IF hasCategoriesUpdate(request) THEN "categories" ELSE "respond"

\* upsertPrompt(key, content)
upsertPrompt(store, key, content) == [store EXCEPT ![key] = content]

RT_Idle ==
    /\ rt_pc = "idle"
    /\ rt_request = NoRequest
    /\ rt_store = EmptyStore
    /\ rt_before = EmptyStore
    /\ rt_key = 0
    /\ rt_status = 0

(***************************************************************************)
(* The estimate wizard (src/frontend/src/App.tsx).  A list is known by    *)
(* its length.                                                             *)
(***************************************************************************)
MaxWizardItems == 2 \* longest list of items or rows the servers return

EstimateSteps == {"upload", "review", "compare", "finalize"}

\* drawingItemsFlat.length > 0
hasDrawingData(drawingCount) == drawingCount > 0
\* boqResults.boqItems.length > 0
hasBoqData(boqCount) == boqCount > 0

canNavigateToStep(stepId, step, reviewActive, drawingCount, boqCount, comparisonCount, finalizeCount) ==
    CASE stepId = "upload" -> TRUE
      [] stepId = "review" -> reviewActive \/ hasDrawingData(drawingCount) \/ hasBoqData(boqCount)
      [] stepId = "compare" -> comparisonCount > 0
      [] stepId = "finalize" -> finalizeCount > 0 \/ step = "finalize"
      [] OTHER -> FALSE

\* What extractEstimates gives: it throws, or returns files with items.
ExtractEstimatesOutcomes ==
    {[threw |-> TRUE, files |-> 0, items |-> 0]}
    \cup {[threw |-> FALSE, files |-> 0, items |-> 0]}
    \cup {[threw |-> FALSE, files |-> 1, items |-> n] : n \in 0..MaxWizardItems}
\* What extractBoq and compareLists give: a throw, or a list.
ListOutcomes == [threw : BOOLEAN, count : 0..MaxWizardItems]

WZ_Idle ==
    /\ wz_pc = "idle"
    /\ activeEstimateStep = "upload"
    /\ reviewStepActive = FALSE
    /\ wz_drawingItems = 0
    /\ wz_boqItems = 0
    /\ wz_comparisons = 0
    /\ finalizeItems = 0

UTIL_Idle ==
    /\ PJ_Idle
    /\ TI_Idle
    /\ WAIT_Idle
    /\ RT_Idle
    /\ WZ_Idle

\* A projection that writes its fields into the caller's items.
ItemsSimplifiedInPlace(its) == [i \in DOMAIN its |-> [kind |-> "simplified", id |-> its[i].id]]

\* drawingItems.map(...) and boqItems.map(...) of comparePreExtractedLists
\* build new arrays of new objects: what they leave of the array they read.
ItemsAfterSimplify(its) == its

\* items.map(...) of buildPrompt, likewise.
ItemsAfterBuildPrompt(its) == its

\* priceList.map(...) of buildPrompt and the reads priceList[index] of the
\* validation loop: what they leave of the loaded price list.
PriceListAfterRead(rows) == rows

PM_Idle ==
    /\ pm_pc = "idle"
    /\ items = <<>>
    /\ priceList = <<>>
    /\ pm_content = NoContent
    /\ pm_mappings = <<>>
    /\ pm_calls = 0

notPM == <<cmpVars, exVars, nsVars, catVars, utilVars>>
notCMP == <<pmVars, exVars, nsVars, catVars, utilVars>>
notEX == <<pmVars, cmpVars, nsVars, catVars, utilVars>>
notNS == <<pmVars, cmpVars, exVars, catVars, utilVars>>
notCAT == <<pmVars, cmpVars, exVars, nsVars, utilVars>>
engineVars == <<pmVars, cmpVars, exVars, nsVars, catVars>>
notPJ == <<engineVars, tiVars, wfVars, rtVars, wzVars>>
notTI == <<engineVars, pjVars, wfVars, rtVars, wzVars>>
notWF == <<engineVars, pjVars, tiVars, rtVars, wzVars>>
notRT == <<engineVars, pjVars, tiVars, wfVars, wzVars>>
notWZ == <<engineVars, pjVars, tiVars, wfVars, rtVars>>

PM_Init ==
    /\ pm_pc = "start"
    /\ items \in {ItemsOfLen(n) : n \in 0..MaxItems}
    /\ priceList = <<>>
    /\ pm_content = NoContent
    /\ pm_mappings = <<>>
    /\ pm_calls = 0
    /\ CMP_Idle
    /\ EX_Idle
    /\ NS_Idle
    /\ CAT_Idle
    /\ UTIL_Idle

\* await loadPriceList(...) resolves; the prompt is built and the request sent.
PM_LoadPriceList ==
    /\ pm_pc = "start"
    /\ \E n \in 0..MaxRows : priceList' = PriceListAfterRead(RowsOfLen(n))
    /\ items' = ItemsAfterBuildPrompt(items)
    /\ pm_pc' = "awaiting"
    /\ pm_calls' = pm_calls + 1
    /\ UNCHANGED <<pm_content, pm_mappings>>
    /\ UNCHANGED notPM

\* await loadPriceList(...) rejects: the function rejects.
PM_LoadFails ==
    /\ pm_pc = "start"
    /\ pm_pc' = "rejected"
    /\ UNCHANGED <<items, priceList, pm_content, pm_mappings, pm_calls>>
    /\ UNCHANGED notPM

\* The oracle call resolves with `content`: parse, validate, return.
PM_OracleResponds ==
    /\ pm_pc = "awaiting"
    /\ \E content \in Contents :
        /\ pm_content' = content
        /\ pm_mappings' = ValidateLoop(parseMappings(content), priceList)
    /\ pm_pc' = "done"
    /\ priceList' = PriceListAfterRead(priceList)
    /\ UNCHANGED <<items, pm_calls>>
    /\ UNCHANGED notPM

\* The oracle call rejects; there is no try/catch around it.
PM_OracleFails ==
    /\ pm_pc = "awaiting"
    /\ pm_pc' = "rejected"
    /\ UNCHANGED <<items, priceList, pm_content, pm_mappings, pm_calls>>
    /\ UNCHANGED notPM

PM_Next == PM_LoadPriceList \/ PM_LoadFails \/ PM_OracleResponds \/ PM_OracleFails

SpecPriceMap == PM_Init /\ [][PM_Next]_vars

CMP_Init ==
    /\ cmp_pc = "start"
    /\ drawingItems \in {ItemsOfLen(n) : n \in 0..MaxCmpItems}
    /\ boqItems \in {ItemsOfLen(n) : n \in 0..MaxCmpItems}
    /\ cmp_response = NoResponse
    /\ cmp_comparisons = <<>>
    /\ cmp_rawContent = NoRaw
    /\ cmp_calls = 0
    /\ PM_Idle
    /\ EX_Idle
    /\ NS_Idle
    /\ CAT_Idle
    /\ UTIL_Idle

\* The lists are simplified, the prompt is built and the request is sent.
CMP_CallOracle ==
    /\ cmp_pc = "start"
    /\ cmp_pc' = "awaiting"
    /\ drawingItems' = ItemsAfterSimplify(drawingItems)
    /\ boqItems' = ItemsAfterSimplify(boqItems)
    /\ cmp_calls' = cmp_calls + 1
    /\ UNCHANGED <<cmp_response, cmp_comparisons, cmp_rawContent>>
    /\ UNCHANGED notCMP

\* The oracle call resolves with `content`.
CMP_OracleResponds ==
    /\ cmp_pc = "awaiting"
    /\ \E content \in CmpResponses :
        LET out == CompareOutcome(content, drawingItems, boqItems)
        IN /\ cmp_response' = content
           /\ cmp_pc' = IF out.rejects THEN "rejected" ELSE "done"
           /\ cmp_comparisons' = out.comparisons
           /\ cmp_rawContent' = out.rawContent
    /\ UNCHANGED <<drawingItems, boqItems, cmp_calls>>
    /\ UNCHANGED notCMP

\* The oracle call rejects (transport or service error): the catch block.
CMP_OracleFails ==
    /\ cmp_pc = "awaiting"
    /\ cmp_pc' = IF CatchBlock.rejects THEN "rejected" ELSE "done"
    /\ cmp_comparisons' = CatchBlock.comparisons
    /\ cmp_rawContent' = CatchBlock.rawContent
    /\ UNCHANGED <<drawingItems, boqItems, cmp_response, cmp_calls>>
    /\ UNCHANGED notCMP

CMP_Next == CMP_CallOracle \/ CMP_OracleResponds \/ CMP_OracleFails

SpecCompare == CMP_Init /\ [][CMP_Next]_vars

\* The two engines that take caller-supplied arrays, either one invoked.
ENG_Init == PM_Init \/ CMP_Init
ENG_Next == PM_Next \/ CMP_Next
SpecEngines == ENG_Init /\ [][ENG_Next]_vars

EX_Init ==
    /\ ex_pc = "idle"
    /\ ex_variant \in {"openai", "gemini"}
    /\ ex_response = [c \in CategoryIndexes |-> Pending]
    /\ ex_task = [c \in CategoryIndexes |-> NotSettled]
    /\ ex_items = <<>>
    /\ ex_errors = <<>>
    /\ ex_first = 0
    /\ ex_calls = [c \in CategoryIndexes |-> 0]
    /\ pd_pc = "start"
    /\ PM_Idle
    /\ CMP_Idle
    /\ NS_Idle
    /\ CAT_Idle
    /\ UTIL_Idle

\* parseDocument reads the file (a .pdf goes to the Gemini variant, any other
\* extension to the text variant) and calls the extraction.
PD_ReadFile ==
    /\ pd_pc = "start"
    /\ pd_pc' = "awaiting"
    /\ ex_pc' = "start"
    /\ UNCHANGED <<ex_variant, ex_response, ex_task, ex_items, ex_errors, ex_first, ex_calls>>
    /\ UNCHANGED notEX

\* Reading the file or extracting its text rejects: so does parseDocument.
PD_ReadFails ==
    /\ pd_pc = "start"
    /\ pd_pc' = "rejected"
    /\ UNCHANGED <<ex_pc, ex_variant, ex_response, ex_task, ex_items, ex_errors, ex_first, ex_calls>>
    /\ UNCHANGED notEX

\* getGeminiClient() throws when GEMINI_API_KEY is not set: the function
\* rejects before any category call.
EX_GeminiClientFails ==
    /\ ex_pc = "start"
    /\ ex_variant = "gemini"
    /\ ex_pc' = "rejected"
    /\ UNCHANGED <<ex_variant, ex_response, ex_task, ex_items, ex_errors, ex_first, ex_calls, pd_pc>>
    /\ UNCHANGED notEX

\* DRAWING_CATEGORIES.map(async ...) runs every callback up to its await: the
\* six calls are issued, and the function awaits Promise.allSettled.
EX_IssueCalls ==
    /\ ex_pc = "start"
    /\ ex_pc' = "awaiting"
    /\ ex_calls' = CallsIssued(ex_calls)
    /\ UNCHANGED <<ex_variant, ex_response, ex_task, ex_items, ex_errors, ex_first, pd_pc>>
    /\ UNCHANGED notEX

\* The service settles the call of one category, in any order; the rest of
\* that category's callback runs.
EX_CategorySettles ==
    /\ ex_pc = "awaiting"
    /\ \E c \in CategoryIndexes, response \in CategoryResponses :
        /\ ex_task[c].status = "pending"
        /\ ex_response' = [ex_response EXCEPT ![c] = response]
        /\ ex_task' = [ex_task EXCEPT ![c] = CategoryTask(ex_variant, c, response)]
        /\ ex_first' = IF ex_first = 0 THEN c ELSE ex_first
        /\ ex_calls' = CallsAfterSettle(ex_calls, c, CategoryTask(ex_variant, c, response))
    /\ UNCHANGED <<ex_pc, ex_variant, ex_items, ex_errors, pd_pc>>
    /\ UNCHANGED notEX

\* Promise.allSettled resolves once every task has settled; the results are
\* aggregated and returned.
EX_Aggregate ==
    /\ ex_pc = "awaiting"
    /\ AllSettled(ex_task)
    /\ ex_items' = CombinedItems(ex_task, 1)
    /\ ex_errors' = CollectedErrors(ex_task, 1)
    /\ ex_pc' = "done"
    /\ UNCHANGED <<ex_variant, ex_response, ex_task, ex_first, ex_calls, pd_pc>>
    /\ UNCHANGED notEX

\* parseDocument, after the await of the extraction: an empty attribute map
\* is the hard failure, anything else is returned.
PD_Return ==
    /\ pd_pc = "awaiting"
    /\ ex_pc = "done"
    /\ pd_pc' = IF AttributesAreEmpty(structuredItemsToAttributeMap(ex_items))
              THEN "failed" ELSE "returned"
    /\ UNCHANGED <<ex_pc, ex_variant, ex_response, ex_task, ex_items, ex_errors, ex_first, ex_calls>>
    /\ UNCHANGED notEX

\* parseDocument does not catch: a rejection of the extraction is its own.
PD_Rejects ==
    /\ pd_pc = "awaiting"
    /\ ex_pc = "rejected"
    /\ pd_pc' = "rejected"
    /\ UNCHANGED <<ex_pc, ex_variant, ex_response, ex_task, ex_items, ex_errors, ex_first, ex_calls>>
    /\ UNCHANGED notEX

EX_Next ==
    \/ PD_ReadFile
    \/ PD_ReadFails
    \/ EX_GeminiClientFails
    \/ EX_IssueCalls
    \/ EX_CategorySettles
    \/ EX_Aggregate
    \/ PD_Return
    \/ PD_Rejects

SpecExtract == EX_Init /\ [][EX_Next]_vars

\* The three operations that call the external service, any one invoked.
CALLS_Init == PM_Init \/ CMP_Init \/ EX_Init
CALLS_Next == PM_Next \/ CMP_Next \/ EX_Next
SpecOracleCalls == CALLS_Init /\ [][CALLS_Next]_vars

\* normalizeSize is applied to a size string.
NS_Init ==
    /\ ns_pc = "start"
    /\ ns_size \in SizeInputs
    /\ ns_result = NotCalled
    /\ ns_again = NotCalled
    /\ PM_Idle
    /\ CMP_Idle
    /\ EX_Idle
    /\ CAT_Idle
    /\ UTIL_Idle

NS_Normalize ==
    /\ ns_pc = "start"
    /\ ns_result' = normalizeSize(ns_size)
    /\ ns_pc' = "once"
    /\ UNCHANGED <<ns_size, ns_again>>
    /\ UNCHANGED notNS

\* The result is normalized once more.
NS_NormalizeAgain ==
    /\ ns_pc = "once"
    /\ ns_again' = normalizeSize(ns_result)
    /\ ns_pc' = "twice"
    /\ UNCHANGED <<ns_size, ns_result>>
    /\ UNCHANGED notNS

NS_Next == NS_Normalize \/ NS_NormalizeAgain

SpecNormalize == NS_Init /\ [][NS_Next]_vars

\* categorizeItem is applied to an item.
CAT_Init ==
    /\ cat_pc = "start"
    /\ cat_item \in CategorizedItems
    /\ cat_result = "none"
    /\ PM_Idle
    /\ CMP_Idle
    /\ EX_Idle
    /\ NS_Idle
    /\ UTIL_Idle

CAT_Categorize ==
    /\ cat_pc = "start"
    /\ cat_result' = categorizeItem(cat_item)
    /\ cat_pc' = "done"
    /\ UNCHANGED cat_item
    /\ UNCHANGED notCAT

CAT_Next == CAT_Categorize

SpecCategorize == CAT_Init /\ [][CAT_Next]_vars

ENGINES_Idle ==
    /\ PM_Idle
    /\ CMP_Idle
    /\ EX_Idle
    /\ NS_Idle
    /\ CAT_Idle

(***************************************************************************)
(* parseJsonFromMessage applied to one message.                            *)
(***************************************************************************)
PJ_Init ==
    /\ pj_pc = "start"
    /\ pj_message \in Messages
    /\ pj_result = PJ_NotCalled
    /\ ENGINES_Idle
    /\ TI_Idle
    /\ WAIT_Idle
    /\ RT_Idle
    /\ WZ_Idle

PJ_Parse ==
    /\ pj_pc = "start"
    /\ pj_result' = parseJsonFromMessage(pj_message)
    /\ pj_pc' = "done"
    /\ UNCHANGED pj_message
    /\ UNCHANGED notPJ

PJ_Next == PJ_Parse

SpecParseJson == PJ_Init /\ [][PJ_Next]_vars

(***************************************************************************)
(* toItemsArray applied to one payload.                                    *)
(***************************************************************************)
TI_Init ==
    /\ ti_pc = "start"
    /\ ti_payload \in Payloads
    /\ ti_result = TI_NotCalled
    /\ ENGINES_Idle
    /\ PJ_Idle
    /\ WAIT_Idle
    /\ RT_Idle
    /\ WZ_Idle

TI_ToItems ==
    /\ ti_pc = "start"
    /\ ti_result' = toItemsArray(ti_payload)
    /\ ti_pc' = "done"
    /\ UNCHANGED ti_payload
    /\ UNCHANGED notTI

TI_Next == TI_ToItems

SpecToItems == TI_Init /\ [][TI_Next]_vars

(***************************************************************************)
(* waitForFileReady, called for a file that was uploaded in state          *)
(* PROCESSING.                                                             *)
(***************************************************************************)
WAIT_Init ==
    /\ wf_pc = "loop"
    /\ wf_maxWait \in 1..MaxWaitTicks
    /\ wf_elapsed = 0
    /\ wf_poll = NoPoll
    /\ wf_error = NoError
    /\ ENGINES_Idle
    /\ PJ_Idle
    /\ TI_Idle
    /\ RT_Idle
    /\ WZ_Idle

\* The loop condition holds: ai.files.get is called.
WAIT_Poll ==
    /\ wf_pc = "loop"
    /\ WithinWait(wf_elapsed, wf_maxWait)
    /\ wf_pc' = "polling"
    /\ UNCHANGED <<wf_maxWait, wf_elapsed, wf_poll, wf_error>>
    /\ UNCHANGED notWF

\* The loop condition fails: the throw after the loop.
WAIT_Timeout ==
    /\ wf_pc = "loop"
    /\ ~WithinWait(wf_elapsed, wf_maxWait)
    /\ wf_pc' = "rejected"
    /\ wf_error' = TimeoutMessage
    /\ UNCHANGED <<wf_maxWait, wf_elapsed, wf_poll>>
    /\ UNCHANGED notWF

\* ai.files.get settles after some time; the rest of the try block and the
\* catch block run up to the return, the throw or the setTimeout.
WAIT_PollSettles ==
    /\ wf_pc = "polling"
    /\ \E outcome \in PollOutcomes, latency \in PollLatencies :
        /\ wf_poll' = outcome
        /\ wf_elapsed' = wf_elapsed + latency
        /\ wf_pc' = AfterPoll(outcome).pc
        /\ wf_error' = AfterPoll(outcome).error
    /\ UNCHANGED wf_maxWait
    /\ UNCHANGED notWF

\* The timer fires: back to the loop condition.
WAIT_TimerFires ==
    /\ wf_pc = "sleeping"
    /\ wf_elapsed' = ElapsedAfterSleep(wf_elapsed)
    /\ wf_pc' = "loop"
    /\ UNCHANGED <<wf_maxWait, wf_poll, wf_error>>
    /\ UNCHANGED notWF

WAIT_Next == WAIT_Poll \/ WAIT_Timeout \/ WAIT_PollSettles \/ WAIT_TimerFires

SpecWaitForFile == WAIT_Init /\ [][WAIT_Next]_vars

\* The event loop runs every continuation that is ready: a pending call of
\* ai.files.get settles and a pending timer fires.
SpecWaitForFileFair == SpecWaitForFile /\ WF_vars(WAIT_Next)

(***************************************************************************)
(* One PUT /drawing-extraction request.                                    *)
(***************************************************************************)
RT_Init ==
    /\ rt_pc = "received"
    /\ rt_request \in Requests
    /\ rt_store \in {EmptyStore, SeededStore}
    /\ rt_before = rt_store
    /\ rt_key = 0
    /\ rt_status = 0
    /\ ENGINES_Idle
    /\ PJ_Idle
    /\ TI_Idle
    /\ WAIT_Idle
    /\ WZ_Idle

\* Lines 56-63: neither update is present.
RT_RejectEmpty ==
    /\ rt_pc = "received"
    /\ ~hasPromptUpdate(rt_request) /\ ~hasCategoriesUpdate(rt_request)
    /\ rt_status' = 400
    /\ rt_pc' = "responded"
    /\ UNCHANGED <<rt_request, rt_store, rt_before, rt_key>>
    /\ UNCHANGED notRT

\* Lines 65-68: the prompt is a blank string.
RT_RejectBlankPrompt ==
    /\ rt_pc = "received"
    /\ hasPromptUpdate(rt_request) /\ IsBlank(rt_request.prompt)
    /\ rt_status' = 400
    /\ rt_pc' = "responded"
    /\ UNCHANGED <<rt_request, rt_store, rt_before, rt_key>>
    /\ UNCHANGED notRT

\* Line 69: the base prompt is upserted.
RT_UpsertPrompt ==
    /\ rt_pc = "received"
    /\ hasPromptUpdate(rt_request) /\ ~IsBlank(rt_request.prompt)
    /\ rt_store' = upsertPrompt(rt_store, BaseKey, rt_request.prompt.s)
    /\ rt_pc' = AfterBasePrompt(rt_request)
    /\ rt_key' = 1
    /\ UNCHANGED <<rt_request, rt_before, rt_status>>
    /\ UNCHANGED notRT

\* No prompt in the request: on to the categories.
RT_SkipPrompt ==
    /\ rt_pc = "received"
    /\ ~hasPromptUpdate(rt_request) /\ hasCategoriesUpdate(rt_request)
    /\ rt_pc' = "categories"
    /\ rt_key' = 1
    /\ UNCHANGED <<rt_request, rt_store, rt_before, rt_status>>
    /\ UNCHANGED notRT

\* Lines 73-80, one pass of the loop: the category is skipped, rejected or
\* upserted.
RT_Category ==
    /\ rt_pc = "categories"
    /\ rt_key \in CategoryIndexes
    /\ LET value == rt_request.categories.fields[rt_key]
       IN IF value.t = "undefined" THEN
              /\ rt_key' = rt_key + 1
              /\ UNCHANGED <<rt_store, rt_status, rt_pc>>
          ELSE IF value.t # "string" THEN
              /\ rt_status' = 400
              /\ rt_pc' = "responded"
              /\ UNCHANGED <<rt_store, rt_key>>
          ELSE
              /\ rt_store' = upsertPrompt(rt_store, rt_key, value.s)
              /\ rt_key' = rt_key + 1
              /\ UNCHANGED <<rt_status, rt_pc>>
    /\ UNCHANGED <<rt_request, rt_before>>
    /\ UNCHANGED notRT

\* The loop is over.
RT_CategoriesDone ==
    /\ rt_pc = "categories"
    /\ rt_key \notin CategoryIndexes
    /\ rt_pc' = "respond"
    /\ UNCHANGED <<rt_request, rt_store, rt_before, rt_key, rt_status>>
    /\ UNCHANGED notRT

\* Lines 83-96: the prompts are read back and returned.
RT_Respond ==
    /\ rt_pc = "respond"
    /\ rt_status' = 200
    /\ rt_pc' = "responded"
    /\ UNCHANGED <<rt_request, rt_store, rt_before, rt_key>>
    /\ UNCHANGED notRT

\* A call of the prompt repository rejects: the catch block hands the error
\* to next and the request is answered by the error handler.
RT_StorageFails ==
    /\ rt_pc \in {"received", "categories", "respond"}
    /\ rt_pc = "received" => (hasPromptUpdate(rt_request) /\ ~IsBlank(rt_request.prompt))
    /\ rt_pc = "categories" =>
            (rt_key \in CategoryIndexes /\ rt_request.categories.fields[rt_key].t = "string")
    /\ rt_status' = 500
    /\ rt_pc' = "responded"
    /\ UNCHANGED <<rt_request, rt_store, rt_before, rt_key>>
    /\ UNCHANGED notRT

RT_Next ==
    \/ RT_RejectEmpty
    \/ RT_RejectBlankPrompt
    \/ RT_UpsertPrompt
    \/ RT_SkipPrompt
    \/ RT_Category
    \/ RT_CategoriesDone
    \/ RT_Respond
    \/ RT_StorageFails

SpecPutPrompts == RT_Init /\ [][RT_Next]_vars

(***************************************************************************)
(* The estimate wizard: the handlers of the new-estimate page.             *)
(***************************************************************************)
WZ_Init ==
    /\ wz_pc = "mounted"
    /\ activeEstimateStep = "upload"
    /\ reviewStepActive = FALSE
    /\ wz_drawingItems = 0
    /\ wz_boqItems = 0
    /\ wz_comparisons = 0
    /\ finalizeItems = 0
    /\ ENGINES_Idle
    /\ PJ_Idle
    /\ TI_Idle
    /\ WAIT_Idle
    /\ RT_Idle

\* handleExtract with drawings and/or a BOQ file chosen (lines 935-1018).
WZ_Extract ==
    /\ wz_pc = "mounted"
    /\ \E hasDrawings, hasBoq \in BOOLEAN,
          drawings \in ExtractEstimatesOutcomes, boq \in ListOutcomes :
        /\ hasDrawings \/ hasBoq
        /\ LET drawingsThrew == hasDrawings /\ drawings.threw
               boqRan == hasBoq /\ ~drawingsThrew
               drawingsSucceeded == hasDrawings /\ ~drawings.threw /\ drawings.files > 0
               boqSucceeded == boqRan /\ ~boq.threw /\ boq.count > 0
               reviewed == ~drawingsThrew /\ (drawingsSucceeded \/ boqSucceeded)
           IN /\ wz_drawingItems' =
                    IF ~hasDrawings THEN wz_drawingItems
                    ELSE IF drawings.threw THEN 0 ELSE drawings.items
              /\ wz_boqItems' = IF boqRan /\ ~boq.threw THEN boq.count ELSE wz_boqItems
              /\ wz_comparisons' = IF boqRan /\ ~boq.threw THEN 0 ELSE wz_comparisons
              /\ reviewStepActive' = reviewed
              /\ activeEstimateStep' = IF reviewed THEN "review" ELSE "upload"
    /\ UNCHANGED <<wz_pc, finalizeItems>>
    /\ UNCHANGED notWZ

\* handleRunCompare (lines 1148-1193): compareLists throws, or returns rows
\* (count: the rows kept after the fallback on rawContent).
WZ_RunCompare ==
    /\ wz_pc = "mounted"
    /\ hasDrawingData(wz_drawingItems) /\ hasBoqData(wz_boqItems)
    /\ \E result \in ListOutcomes :
        IF result.threw
        THEN UNCHANGED <<wz_comparisons, activeEstimateStep>>
        ELSE /\ wz_comparisons' = result.count
             /\ activeEstimateStep' = "compare"
    /\ UNCHANGED <<wz_pc, reviewStepActive, wz_drawingItems, wz_boqItems, finalizeItems>>
    /\ UNCHANGED notWZ

\* handleStepChange(stepId) (lines 1128-1136).
WZ_StepChange ==
    /\ wz_pc = "mounted"
    /\ \E stepId \in EstimateSteps :
        /\ stepId # activeEstimateStep
        /\ activeEstimateStep' =
              IF canNavigateToStep(stepId, activeEstimateStep, reviewStepActive,
                                   wz_drawingItems, wz_boqItems, wz_comparisons, finalizeItems)
              THEN stepId ELSE activeEstimateStep
    /\ UNCHANGED <<wz_pc, reviewStepActive, wz_drawingItems, wz_boqItems, wz_comparisons,
                   finalizeItems>>
    /\ UNCHANGED notWZ

\* handleProceedFromReview with one list only (lines 1138-1146); with both
\* lists it is handleRunCompare.
WZ_ProceedFromReview ==
    /\ wz_pc = "mounted"
    /\ activeEstimateStep = "review"
    /\ ~(hasDrawingData(wz_drawingItems) /\ hasBoqData(wz_boqItems))
    /\ finalizeItems' = IF hasDrawingData(wz_drawingItems) THEN wz_drawingItems ELSE wz_boqItems
    /\ activeEstimateStep' = "finalize"
    /\ UNCHANGED <<wz_pc, reviewStepActive, wz_drawingItems, wz_boqItems, wz_comparisons>>
    /\ UNCHANGED notWZ

\* The Finalize button of the compare step (lines 1710-1742): the selected
\* rows become the items to finalize.
WZ_FinalizeSelections ==
    /\ wz_pc = "mounted"
    /\ activeEstimateStep = "compare"
    /\ \E selected \in 0..wz_comparisons : finalizeItems' = selected
    /\ activeEstimateStep' = "finalize"
    /\ UNCHANGED <<wz_pc, reviewStepActive, wz_drawingItems, wz_boqItems, wz_comparisons>>
    /\ UNCHANGED notWZ

\* resetEstimateFlow (lines 856-879).
WZ_Reset ==
    /\ wz_pc = "mounted"
    /\ activeEstimateStep' = "upload"
    /\ reviewStepActive' = FALSE
    /\ wz_drawingItems' = 0
    /\ wz_boqItems' = 0
    /\ wz_comparisons' = 0
    /\ finalizeItems' = 0
    /\ UNCHANGED wz_pc
    /\ UNCHANGED notWZ

WZ_Next ==
    \/ WZ_Extract
    \/ WZ_RunCompare
    \/ WZ_StepChange
    \/ WZ_ProceedFromReview
    \/ WZ_FinalizeSelections
    \/ WZ_Reset

SpecWizard == WZ_Init /\ [][WZ_Next]_vars

(***************************************************************************)
(* Claims about the Price Mapping Engine, checked under SpecPriceMap.      *)
(***************************************************************************)
PM_Done == pm_pc = "done"

\* C1: every PriceMapping returned by mapItemsToPriceList has
\* 0 <= price_list_index < priceList.length, whatever the oracle answered.
C1_PriceListIndexInBounds ==
    PM_Done =>
        \A i \in 1..Len(pm_mappings) :
            /\ IsNumber(pm_mappings[i].price_list_index)
            /\ NumGe(pm_mappings[i].price_list_index, 0)
            /\ NumLt(pm_mappings[i].price_list_index, Len(priceList))

\* C1 witness: the oracle's array held an entry that passes the filter and
\* has price_list_index >= priceList.length, and a mapping was returned.
C1_Witness ==
    /\ PM_Done
    /\ pm_mappings # <<>>
    /\ \E i \in 1..Len(pm_content.arr) :
        /\ ~pm_content.arr[i].isNull
        /\ FilterAccepts(pm_content.arr[i])
        /\ NumGe(pm_content.arr[i].price_list_index, Len(priceList))

\* C2: every returned PriceMapping has item_index and price_list_index that
\* are both non-negative integers (an entry with 1.5 is dropped).
C2_IndicesAreNonNegativeIntegers ==
    PM_Done =>
        \A i \in 1..Len(pm_mappings) :
            /\ IsInteger(pm_mappings[i].item_index)
            /\ IsInteger(pm_mappings[i].price_list_index)
            /\ pm_mappings[i].item_index.n >= 0
            /\ pm_mappings[i].price_list_index.n >= 0

\* C3: every returned PriceMapping has item_index within [0, items.length).
C3_ItemIndexInBounds ==
    PM_Done =>
        \A i \in 1..Len(pm_mappings) :
            /\ NumGe(pm_mappings[i].item_index, 0)
            /\ NumLt(pm_mappings[i].item_index, Len(items))

\* An entry that is valid on every reading: an object whose indices are
\* integers, item_index a position of items, price_list_index one of priceList.
StrictlyValid(m) ==
    /\ IsInteger(m.item_index) /\ IsInteger(m.price_list_index)
    /\ m.item_index.n >= 0 /\ m.item_index.n < Len(items)
    /\ m.price_list_index.n >= 0 /\ m.price_list_index.n < Len(priceList)
StrictlyValidEntry(e) == ~e.isNull /\ StrictlyValid(e)

RECURSIVE WithPriceRows(_)
WithPriceRows(entries) ==
    IF entries = <<>> THEN <<>>
    ELSE <<[item_index |-> Head(entries).item_index,
            price_list_index |-> Head(entries).price_list_index,
            price_row |-> priceList[Head(entries).price_list_index.n + 1]]>>
         \o WithPriceRows(Tail(entries))

\* The valid entries of the oracle's array, in the oracle's order, each with
\* its price row, are exactly the valid mappings returned.
AllValidEntriesReturned ==
    SelectSeq(pm_mappings, StrictlyValid)
        = WithPriceRows(SelectSeq(pm_content.arr, StrictlyValidEntry))

\* C4: all valid entries of the oracle's response are returned, none collapsed
\* or de-duplicated, in the oracle's order, each with price_row =
\* priceList[price_list_index].
C4_AllValidEntriesReturned == PM_Done => AllValidEntriesReturned

\* C4 holds of every response whose array has no null element.
C4_HoldsWithoutNullElement ==
    (PM_Done /\ ~MapThrows(pm_content.arr)) => AllValidEntriesReturned

\* Two valid entries with the same item_index and distinct price_list_index
\* values are both returned (the case C4 is about).
C4_OneToManyReached ==
    /\ PM_Done
    /\ Len(pm_mappings) = 2
    /\ StrictlyValid(pm_mappings[1]) /\ StrictlyValid(pm_mappings[2])
    /\ pm_mappings[1].item_index = pm_mappings[2].item_index
    /\ pm_mappings[1].price_list_index # pm_mappings[2].price_list_index

(***************************************************************************)
(* Claims about the Comparison Engine, checked under SpecCompare.          *)
(***************************************************************************)
CMP_Done == cmp_pc = "done"
\* The oracle answered with a text and the rows were built from it.
CMP_Mapped == CMP_Done /\ cmp_rawContent.kind = "content"

IndexSupplied(idx) == idx.t # "null" /\ idx.t # "undefined"
IndexInRange(idx, list) == IsInteger(idx) /\ idx.n >= 0 /\ idx.n < Len(list)
\* No index of the oracle row points outside its list.
NoIndexOutOfRange(comp) ==
    /\ IndexSupplied(DrawingIdx(comp)) => IndexInRange(DrawingIdx(comp), drawingItems)
    /\ IndexSupplied(BoqIdx(comp)) => IndexInRange(BoqIdx(comp), boqItems)

\* C5: an oracle row with an out-of-range drawing_idx or boq_idx is dropped
\* entirely, so at most the rows without such an index are returned and no
\* returned row holds the undefined that an out-of-range index reads.
C5_OutOfRangeRowsDropped ==
    CMP_Mapped =>
        /\ Len(cmp_comparisons) <= Len(SelectSeq(cmp_response.arr, NoIndexOutOfRange))
        /\ \A i \in 1..Len(cmp_comparisons) :
            /\ cmp_comparisons[i].drawing_item # UndefinedItem
            /\ cmp_comparisons[i].boq_item # UndefinedItem

\* C6: every returned ComparisonRow has one of the six statuses.
C6_StatusIsEnumerated ==
    CMP_Done => \A i \in 1..Len(cmp_comparisons) : cmp_comparisons[i].status \in ComparisonStatus

\* C7: no returned ComparisonRow has both drawing_item and boq_item absent.
C7_OneSidePresent ==
    CMP_Done =>
        \A i \in 1..Len(cmp_comparisons) :
            \/ cmp_comparisons[i].drawing_item.kind = "item"
            \/ cmp_comparisons[i].boq_item.kind = "item"

\* C8: comparePreExtractedLists never rejects once the oracle has been called,
\* whether the call fails or answers with any text: it resolves, and with the
\* empty list when the try block threw.
C8_NeverRejects ==
    /\ cmp_pc \in {"start", "awaiting", "done"}
    /\ (CMP_Done /\ cmp_rawContent.kind = "errorJson") => cmp_comparisons = <<>>

\* C8 witness: the function resolved after a TypeError raised by the oracle's
\* text (JSON null, a non-array `comparisons`, a null element).
C8_Witness ==
    /\ CMP_Done
    /\ cmp_response # NoResponse
    /\ TryBlockThrows(cmp_response)
    /\ cmp_rawContent.kind = "errorJson"

\* The response text is none of the expected envelopes.
NotAnEnvelope(content) ==
    \/ content.form \in {"garbage", "null", "scalar"}
    \/ content.form \in {"object", "prose"} /\ content.val # "array"

\* C9: when the oracle's response text is none of the expected envelopes, the
\* result has zero rows and its rawContent is exactly that text.
C9_RawResponsePreserved ==
    (CMP_Done /\ cmp_response # NoResponse /\ NotAnEnvelope(cmp_response)) =>
        /\ cmp_comparisons = <<>>
        /\ cmp_rawContent = RawText(cmp_response)

(***************************************************************************)
(* Claims about the extraction orchestrator, checked under SpecExtract.    *)
(***************************************************************************)
EX_Done == ex_pc = "done"

RECURSIVE ItemsOfCategory(_, _)
ItemsOfCategory(its, key) ==
    IF its = <<>> THEN <<>>
    ELSE IF Head(its).cat = key THEN <<Head(its)>> \o ItemsOfCategory(Tail(its), key)
    ELSE ItemsOfCategory(Tail(its), key)

RECURSIVE SumOfLengths(_, _)
SumOfLengths(tasks, index) ==
    IF index > Len(tasks) THEN 0
    ELSE Len(tasks[index].items) + SumOfLengths(tasks, index + 1)

\* C10: in both variants, whatever subset of the six category calls failed,
\* the returned items hold, for every category that succeeded, exactly the
\* items its task resolved with, nothing of a failed category and nothing else.
C10_FailuresDoNotAffectOthers ==
    EX_Done =>
        /\ \A c \in CategoryIndexes :
            ItemsOfCategory(ex_items, DRAWING_CATEGORIES[c])
                = IF ex_task[c].status = "fulfilled" THEN ex_task[c].items ELSE <<>>
        /\ Len(ex_items) = SumOfLengths(ex_task, 1)

\* C10 witness: a category failed, a later one succeeded with items, and those
\* items were returned.
C10_Witness ==
    /\ EX_Done
    /\ \E c, d \in CategoryIndexes :
        /\ c < d
        /\ ex_task[c].status = "rejected"
        /\ ex_task[d].status = "fulfilled"
        /\ ex_task[d].items # <<>>
        /\ ItemsOfCategory(ex_items, DRAWING_CATEGORIES[d]) = ex_task[d].items

\* The position of a category key in DRAWING_CATEGORIES.
CategoryIndex(key) == CHOOSE c \in CategoryIndexes : DRAWING_CATEGORIES[c] = key

\* C11: whatever the order in which the category calls complete, the returned
\* items are ordered by the declaration order of their categories and, within
\* a category, by their position in that category's response.
C11_ItemsInDeclarationOrder ==
    EX_Done =>
        \A i, j \in DOMAIN ex_items :
            i < j =>
                \/ CategoryIndex(ex_items[i].cat) < CategoryIndex(ex_items[j].cat)
                \/ /\ ex_items[i].cat = ex_items[j].cat
                   /\ ex_items[i].k < ex_items[j].k

\* C11 witness: a later-declared category answered first, an earlier one
\* answered after it with two items, and the earlier one's items come first.
C11_Witness ==
    /\ EX_Done
    /\ \E c, d \in CategoryIndexes :
        /\ c < d
        /\ ex_first = d
        /\ ex_task[d].status = "fulfilled"
        /\ ex_task[d].items # <<>>
        /\ ex_task[c].status = "fulfilled"
        /\ Len(ex_task[c].items) >= 2
        /\ \E i, j \in DOMAIN ex_items :
            /\ i < j
            /\ ex_items[i].cat = DRAWING_CATEGORIES[c]
            /\ ex_items[j].cat = DRAWING_CATEGORIES[d]

\* C12: the orchestrator has a result only when every one of the six category
\* tasks has settled; while a call is pending there is no item list, no error
\* list and no return, however many tasks have already failed.
C12_ResultOnlyAfterAllSettled ==
    /\ EX_Done => \A c \in CategoryIndexes : ex_task[c].status \in {"fulfilled", "rejected"}
    /\ (\E c \in CategoryIndexes : ex_task[c].status = "pending") =>
        /\ ex_pc \in {"idle", "start", "awaiting", "rejected"}
        /\ ex_items = <<>>
        /\ ex_errors = <<>>
        /\ pd_pc \notin {"returned", "failed"}

\* C12 witness: the first task to settle was a failure, and the result came
\* with all six settled.
C12_Witness ==
    /\ EX_Done
    /\ ex_first # 0
    /\ ex_task[ex_first].status = "rejected"
    /\ \E c \in CategoryIndexes : ex_task[c].status = "fulfilled"
    /\ Len(ex_errors) >= 1

\* A category extraction fails, in the words of the specification, on a call
\* error, on a response without JSON that parses, or on a truncated response.
ExtractionFailed(response) ==
    \/ response.kind = "error"
    \/ response.kind = "answer" /\ ~response.json
    \/ response.kind = "answer" /\ response.finish = "length"

FailedCategories(responses) ==
    SelectSeq(DRAWING_CATEGORIES, LAMBDA key : ExtractionFailed(responses[CategoryIndex(key)]))

ErrorCategories(errors) == [i \in DOMAIN errors |-> errors[i].cat]

\* C13: when k of the six category extractions fail (call error, no JSON that
\* parses, truncation), the orchestrator does not throw and its error list
\* has exactly k entries, one per failed category, in declaration order.
C13_OneErrorPerFailedCategory ==
    /\ ex_pc = "rejected" => \A c \in CategoryIndexes : ex_response[c] = Pending
    /\ EX_Done => ErrorCategories(ex_errors) = FailedCategories(ex_response)

\* C13, in the text variant, where truncation is a failure of the task.
C13_HoldsInTextVariant ==
    (EX_Done /\ ex_variant = "openai") =>
        ErrorCategories(ex_errors) = FailedCategories(ex_response)

\* C13, for the categories whose task was rejected, in both variants.
C13_OneErrorPerRejectedTask ==
    EX_Done =>
        ErrorCategories(ex_errors)
            = SelectSeq(DRAWING_CATEGORIES,
                        LAMBDA key : ex_task[CategoryIndex(key)].status = "rejected")

ErrorsOfCategory(errors, key) == {i \in DOMAIN errors : errors[i].cat = key}

\* C14: in extractAttributesWithOpenAI a category whose response is truncated
\* (finish_reason "length") contributes no item and exactly one error entry
\* labelled with the category, even when its text holds a JSON array.
C14_TruncatedIsAnErrorInText ==
    (EX_Done /\ ex_variant = "openai") =>
        \A c \in CategoryIndexes :
            ex_response[c].finish = "length" =>
                /\ ItemsOfCategory(ex_items, DRAWING_CATEGORIES[c]) = <<>>
                /\ Cardinality(ErrorsOfCategory(ex_errors, DRAWING_CATEGORIES[c])) = 1

\* C14 witness: a truncated response with a JSON array in the text variant,
\* next to a category that delivered items.
C14_Witness ==
    /\ EX_Done
    /\ ex_variant = "openai"
    /\ \E c, d \in CategoryIndexes :
        /\ ex_response[c] = Answer("length", TRUE, 1)
        /\ ex_task[d].status = "fulfilled"
        /\ ex_items # <<>>
        /\ ErrorsOfCategory(ex_errors, DRAWING_CATEGORIES[c]) # {}

\* C15: in extractAttributesFromPdfWithGemini a category whose response is
\* truncated at the output limit contributes no item and one error entry
\* for that category.
C15_TruncatedIsAnErrorInPdf ==
    (EX_Done /\ ex_variant = "gemini") =>
        \A c \in CategoryIndexes :
            ex_response[c].finish = "length" =>
                /\ ItemsOfCategory(ex_items, DRAWING_CATEGORIES[c]) = <<>>
                /\ Cardinality(ErrorsOfCategory(ex_errors, DRAWING_CATEGORIES[c])) = 1

\* C16: parseDocument raises its hard failure only when every category
\* extraction failed; when at least one category succeeded, even with an empty
\* array, the run is returned.
C16_HardFailureOnlyWhenAllFailed ==
    /\ pd_pc = "failed" => \A c \in CategoryIndexes : ex_task[c].status = "rejected"
    /\ (pd_pc \in {"returned", "failed"}
        /\ \E c \in CategoryIndexes : ex_task[c].status = "fulfilled") => pd_pc = "returned"

\* C16, as the code has it: the hard failure is raised exactly when no item
\* was extracted.
C16_HardFailureWhenNoItem ==
    pd_pc \in {"returned", "failed"} => (pd_pc = "failed" <=> ex_items = <<>>)

(***************************************************************************)
(* Claims about normalizeSize, checked under SpecNormalize.                *)
(***************************************************************************)
NS_Called == ns_pc \in {"once", "twice"}

\* "<mm>mm" for a number of millimetres.
MmString(mm) == NumberToString(mm) \o <<"m", "m">>

\* C17: for every nominal size n of the table, the inputs n", (diameter)n",
\* DNn, "n inch" and "nin" all normalize to the table's "<mm>mm", and so does
\* a bare numeric string that is a key of the table.
C17_InchFormsConvert ==
    NS_Called =>
        \A i \in DOMAIN INCH_TO_MM :
            (\/ INCH_TO_MM[i].key \in NominalSizes /\ ns_size \in InchForms(INCH_TO_MM[i].key)
             \/ INCH_TO_MM[i].key \in DecimalKeys /\ ns_size = INCH_TO_MM[i].key)
                => ns_result = MmString(INCH_TO_MM[i].mm)

\* The forms of C17 that the code converts: for a whole number of inches every
\* form but the plain n", and every bare decimal key.
WholeSizes == {n \in NominalSizes : \A k \in DOMAIN n : n[k] \in Digits}
C17_WholeInchFormsConvert ==
    NS_Called =>
        \A i \in DOMAIN INCH_TO_MM :
            (\/ /\ INCH_TO_MM[i].key \in WholeSizes
                /\ ns_size \in InchForms(INCH_TO_MM[i].key) \ {INCH_TO_MM[i].key \o <<"\"">>}
             \/ INCH_TO_MM[i].key \in DecimalKeys /\ ns_size = INCH_TO_MM[i].key)
                => ns_result = MmString(INCH_TO_MM[i].mm)

\* A size string is accepted by the inch-to-mm table when a lookup in the
\* table converts it, or when it is a written form of one of the table's sizes.
AcceptedByTable(s) == Normalized(s).rule \in {"inch", "numeric"} \/ s \in TableForms

\* C18: normalizeSize(normalizeSize(s)) = normalizeSize(s) for every size
\* string s accepted by the inch-to-mm table.
C18_IdempotentOnTableSizes ==
    (ns_pc = "twice" /\ AcceptedByTable(ns_size)) => ns_again = ns_result

\* C18, on every size string.
C18_IdempotentOnEverySize == ns_pc = "twice" => ns_again = ns_result

\* C18 witness: an inch-marked size was converted through the table, and
\* normalizing the result again gave the same text.
C18_Witness ==
    /\ ns_pc = "twice"
    /\ Normalized(ns_size).rule = "inch"
    /\ ns_result # ns_size
    /\ ns_again = ns_result

\* No conversion rule matches: no mm token, no inch-marked size that is found
\* in the table, not a bare key of the table.
NoRuleMatches(s) ==
    /\ s \notin {UndefinedSize, <<>>}
    /\ mmMatch(trim(toLowerCase(s))) = NoMatch
    /\ InchPatternMm(trim(toLowerCase(s))) = 0
    /\ NumericMm(s) = 0

StringChars == WordChars \cup {"Oslash", "oslash", "\"", "'", " ", ".", "/", "-"}

\* C19: normalizeSize returns a string for every input, the empty string for
\* the empty string, and an input that no conversion rule matches unchanged,
\* character for character.
C19_UnrecognizedReturnedUnchanged ==
    NS_Called =>
        /\ ns_result \in Seq(StringChars)
        /\ ns_size = <<>> => ns_result = <<>>
        /\ NoRuleMatches(ns_size) => ns_result = ns_size

\* C19 witness: an input with upper case or outer white space that no rule
\* matches came back as it was given.
C19_Witness ==
    /\ ns_pc = "once"
    /\ NoRuleMatches(ns_size)
    /\ trim(toLowerCase(ns_size)) # ns_size
    /\ ns_result = ns_size

(***************************************************************************)
(* Claims about categorizeItem, checked under SpecCategorize.              *)
(***************************************************************************)
CategoryOrder ==
    <<"STORAGE_TANK", "DAY_TANK", "PUMP", "FILLING_POINT", "BALL_VALVE", "CHECK_VALVE",
      "GATE_VALVE", "STRAINER", "PIPE", "FLEXIBLE_HOSE", "VENT", "SENSOR", "LEVEL_DEVICE",
      "CONTROL_PANEL", "ELECTRICAL">>

RuleKeywords ==
    [STORAGE_TANK |-> {"storage tank"}, DAY_TANK |-> {"day tank"}, PUMP |-> {"pump"},
     FILLING_POINT |-> {"filling point", "fill point"}, BALL_VALVE |-> {"bv", "ball valve"},
     CHECK_VALVE |-> {"cv", "check valve"}, GATE_VALVE |-> {"gate valve"},
     STRAINER |-> {"strainer"}, PIPE |-> {"pipe", "piping"},
     FLEXIBLE_HOSE |-> {"flexible", "hose"}, VENT |-> {"vent"},
     SENSOR |-> {"leak", "sensor"}, LEVEL_DEVICE |-> {"probe", "switch", "indicator"},
     CONTROL_PANEL |-> {"control panel", "mcp"},
     ELECTRICAL |-> {"conduit", "wiring", "cable"}]

\* The keyword rule of a category on the phrases of a lower-cased text.
KeywordRule(category, phrases) ==
    /\ phrases \cap RuleKeywords[category] # {}
    /\ category = "LEVEL_DEVICE" => "level" \in phrases

\* The earliest category of CategoryOrder among those at the positions of
\* `matching`, OTHER when there is none.
EarliestCategory(matching) ==
    IF matching = {} THEN "OTHER" ELSE CategoryOrder[MinOf(matching)]

\* C20 as stated: the result is the earliest category, in the rule order,
\* whose keyword rule matches the lower-cased description; OTHER when none.
C20_EarliestRuleOnDescription ==
    cat_pc = "done" =>
        cat_result = EarliestCategory(
            {i \in DOMAIN CategoryOrder :
                KeywordRule(CategoryOrder[i],
                            LowerCasePhrases(OrElse(cat_item.description, EmptyText)))})

\* C20 as amended: the result is the earliest category, in the rule order,
\* whose keyword rule matches the lower-cased description (full_description
\* when there is no description) or, for STORAGE_TANK, DAY_TANK and PUMP, the
\* lower-cased item_type; OTHER when none.
C20_FirstMatchWins ==
    cat_pc = "done" =>
        cat_result = EarliestCategory(
            {i \in DOMAIN CategoryOrder :
                \/ KeywordRule(CategoryOrder[i],
                               LowerCasePhrases(OrElse(cat_item.description,
                                                       OrElse(cat_item.full_description,
                                                              EmptyText))))
                \/ /\ i <= 3
                   /\ KeywordRule(CategoryOrder[i],
                                  LowerCasePhrases(OrElse(cat_item.item_type, EmptyText)))})

\* C20 witness: a description with both "ball valve" and "check valve" was
\* categorized BALL_VALVE.
C20_Witness ==
    /\ cat_pc = "done"
    /\ cat_item.description.defined
    /\ {"ball valve", "check valve"} \subseteq LowerCasePhrases(cat_item.description)
    /\ \E o \in cat_item.description.found : o.upper
    /\ cat_result = "BALL_VALVE"

(***************************************************************************)
(* Claims about both engines, checked under SpecEngines.                   *)
(***************************************************************************)
\* C21: no step of comparePreExtractedLists or of mapItemsToPriceList changes
\* the caller's arrays or an item in them, nor the price list once it is
\* loaded, whether the oracle call succeeds or fails.
C21_InputsNotMutated ==
    [][/\ drawingItems' = drawingItems
       /\ boqItems' = boqItems
       /\ items' = items
       /\ pm_pc # "start" => priceList' = priceList]_vars

\* C21 witness: comparePreExtractedLists has returned a row that refers to an
\* item of the caller's array, and the arrays are as they were passed.
C21_Witness ==
    /\ CMP_Done
    /\ drawingItems = ItemsOfLen(MaxCmpItems)
    /\ boqItems = ItemsOfLen(MaxCmpItems)
    /\ \E i \in DOMAIN cmp_comparisons : cmp_comparisons[i].drawing_item = Item(0)

(***************************************************************************)
(* Claims about the rows of comparePreExtractedLists, under SpecCompare.   *)
(***************************************************************************)
\* C22: no drawing item and no BOQ item appears in two returned rows, even
\* when the oracle pairs the same index twice.
C22_EachItemInAtMostOneRow ==
    CMP_Done =>
        \A i, j \in 1..Len(cmp_comparisons) :
            i # j =>
                /\ cmp_comparisons[i].drawing_item.kind = "item"
                        => cmp_comparisons[i].drawing_item # cmp_comparisons[j].drawing_item
                /\ cmp_comparisons[i].boq_item.kind = "item"
                        => cmp_comparisons[i].boq_item # cmp_comparisons[j].boq_item

\* C23: a returned row has drawing_item null whenever its oracle row supplied
\* no drawing index under either key, and boq_item null whenever it supplied
\* no BOQ index; with empty drawingItems every returned row has drawing_item
\* null.
C23_NullWhereNoIndex ==
    CMP_Mapped =>
        \A i \in 1..Len(cmp_comparisons) :
            /\ (~IndexSupplied(cmp_response.arr[i].drawing_idx)
                    /\ ~IndexSupplied(cmp_response.arr[i].drawing_index))
                  => cmp_comparisons[i].drawing_item = NullItem
            /\ (~IndexSupplied(cmp_response.arr[i].boq_idx)
                    /\ ~IndexSupplied(cmp_response.arr[i].boq_index))
                  => cmp_comparisons[i].boq_item = NullItem
            /\ drawingItems = <<>> => cmp_comparisons[i].drawing_item = NullItem

\* The part of C23 the code keeps: null on each side whose index the oracle
\* row supplied under neither key.
C23_NullWhereNoIndexSupplied ==
    CMP_Mapped =>
        \A i \in 1..Len(cmp_comparisons) :
            /\ ~IndexSupplied(DrawingIdx(cmp_response.arr[i]))
                  => cmp_comparisons[i].drawing_item = NullItem
            /\ ~IndexSupplied(BoqIdx(cmp_response.arr[i]))
                  => cmp_comparisons[i].boq_item = NullItem

(***************************************************************************)
(* Claims about parseJsonFromMessage, checked under SpecParseJson.         *)
(***************************************************************************)
\* The spans of the message that are a JSON array or object.
JsonSpans(m) ==
    {sp \in (1..Len(m)) \X (1..Len(m)) :
        ParseValue(m, sp[1]).ok /\ ParseValue(m, sp[1]).next = sp[2] + 1}
\* Those that are not part of a longer one: the JSON values of the message.
TopLevelSpans(m) ==
    {sp \in JsonSpans(m) :
        \A other \in JsonSpans(m) : (other[1] <= sp[1] /\ sp[2] <= other[2]) => other = sp}
ExactlyOneJsonValue(m) == Cardinality(TopLevelSpans(m)) = 1
TheJsonValue(m) == ParseValue(m, (CHOOSE sp \in TopLevelSpans(m) : TRUE)[1]).val

\* C24: for a message that holds exactly one JSON array or object, with
\* any prose around it, parseJsonFromMessage returns that whole value.
C24_RecoversTheJsonValue ==
    (pj_pc = "done" /\ ExactlyOneJsonValue(pj_message)) =>
        pj_result = PJ_Returned(TheJsonValue(pj_message))

\* What holds of the code: the value is recovered when it is an array and no
\* square bracket stands outside it.
C24_RecoversAnArrayInPlainProse ==
    (/\ pj_pc = "done"
     /\ ExactlyOneJsonValue(pj_message)
     /\ TheJsonValue(pj_message).t = "array"
     /\ \A i \in 1..Len(pj_message) :
            pj_message[i] \in {"[", "]"} =>
                \E sp \in TopLevelSpans(pj_message) : sp[1] <= i /\ i <= sp[2])
        => pj_result = PJ_Returned(TheJsonValue(pj_message))

(***************************************************************************)
(* Claims about toItemsArray, checked under SpecToItems.                   *)
(***************************************************************************)
IsRecordElement(e) == e.t = "record"
\* The payload is an array, or an object whose `items` field is an array.
HoldsAnArray(payload) ==
    \/ payload.t = "array"
    \/ payload.t = "object" /\ payload.hasItems /\ payload.itemsIsArray

\* C25: toItemsArray returns one ExtractedItem per plain-record element of
\* the payload array (or of payload.items), in the same relative order, and
\* nothing for a null, a primitive or an array; a payload that holds no such
\* array gives the empty list.
C25_OneItemPerPlainRecord ==
    ti_pc = "done" =>
        LET records == SelectSeq(ti_payload.arr, IsRecordElement)
        IN IF HoldsAnArray(ti_payload)
           THEN /\ Len(ti_result) = Len(records)
                /\ \A k \in 1..Len(records) :
                      ti_result[k].description = toOptionalString(records[k].description)
           ELSE ti_result = <<>>

\* C25 witness: two records with an array between them came back as two
\* items, in their order.
C25_Witness ==
    /\ ti_pc = "done"
    /\ ti_payload = ObjectPayload(<<JsonRecord(<<"a">>), JsonEmptyArray, JsonRecord(<<" ", "b">>)>>)
    /\ ti_result = <<[description |-> <<"a">>], [description |-> <<"b">>]>>

(***************************************************************************)
(* Claims about the calls to the external service, under SpecOracleCalls.  *)
(***************************************************************************)
\* No category is called twice, and once a call has settled every category
\* has been called.
C26_CallsOfARun ==
    /\ \A c \in CategoryIndexes : ex_calls[c] <= 1
    /\ (\E c \in CategoryIndexes : ex_task[c].status # "pending")
            => \A c \in CategoryIndexes : ex_calls[c] = 1
    /\ pm_calls <= 1
    /\ cmp_calls <= 1

\* C26: a run of the orchestrator issues exactly one call per category, all
\* of them before any is awaited and none again after a failure, and
\* comparePreExtractedLists and mapItemsToPriceList each issue exactly one
\* call per invocation: whatever way the operation ended, it made its calls.
C26_ExactlyOneCallPerInvocation ==
    /\ C26_CallsOfARun
    /\ ex_pc \in {"done", "rejected"} => \A c \in CategoryIndexes : ex_calls[c] = 1
    /\ pm_pc \in {"done", "rejected"} => pm_calls = 1
    /\ cmp_pc \in {"done", "rejected"} => cmp_calls = 1

\* C26 amended: at most one call per category and per invocation, none
\* again after a failure, and exactly one (per category, all before the
\* await) in every invocation that got as far as its call.
C26_OneCallOnceReached ==
    /\ C26_CallsOfARun
    /\ ex_pc \in {"awaiting", "done"} => \A c \in CategoryIndexes : ex_calls[c] = 1
    /\ pm_pc \in {"awaiting", "done"} => pm_calls = 1
    /\ cmp_pc \in {"awaiting", "done"} => cmp_calls = 1

\* C26 witness: a run ended with a failed category, each category called
\* once.
C26_Witness ==
    /\ ex_pc = "done"
    /\ \E c \in CategoryIndexes : ex_task[c].status = "rejected"
    /\ \A c \in CategoryIndexes : ex_calls[c] = 1

(***************************************************************************)
(* Claims about waitForFileReady.                                          *)
(***************************************************************************)
WAIT_Terminated == wf_pc \in {"resolved", "rejected"}
SawFAILED == wf_poll.kind = "file" /\ wf_poll.state = "FAILED"

\* C27: when the last poll observed the file in state FAILED, the function
\* has rejected with a "File processing failed" error: it is not waiting
\* for another poll.  Checked under SpecWaitForFile.
C27_FailedPollRejects ==
    SawFAILED =>
        /\ wf_pc = "rejected"
        /\ SubSeq(wf_error, 1, 3) = <<"File", "processing", "failed:">>

\* What the code does on a FAILED poll: it rejects only when the file's own
\* error message holds the text FAILED, and waits for the next poll otherwise.
C27_RejectsOnlyOnFAILEDText ==
    SawFAILED =>
        IF IncludesFAILED(wf_poll.message)
        THEN wf_pc = "rejected" /\ wf_error = FailedMessage(wf_poll.message)
        ELSE wf_pc # "resolved" /\ (wf_pc = "rejected" => wf_error = TimeoutMessage)

\* C28: waitForFileReady terminates, and at the latest at the first loop
\* test after maxWaitMs has elapsed; it resolves only after a poll that
\* observed ACTIVE, and rejects with the timeout or with an error the code
\* takes for a processing failure (its message holds FAILED), however many
\* polls gave PROCESSING or a transient error.  Checked under
\* SpecWaitForFileFair.
C28_Terminates ==
    /\ <>WAIT_Terminated
    /\ (wf_elapsed >= wf_maxWait) ~> WAIT_Terminated
    /\ [](wf_pc = "resolved" => (wf_poll.kind = "file" /\ wf_poll.state = "ACTIVE"))
    /\ [](wf_pc = "rejected" => (wf_error = TimeoutMessage \/ IncludesFAILED(wf_error)))

\* C28 witness: the longest wait ran out after polls that gave PROCESSING
\* and the function rejected with the timeout.
C28_Witness ==
    /\ wf_pc = "rejected"
    /\ wf_error = TimeoutMessage
    /\ wf_maxWait = MaxWaitTicks
    /\ wf_elapsed >= wf_maxWait
    /\ wf_poll.state = "PROCESSING"

(***************************************************************************)
(* Claims about PUT /drawing-extraction, checked under SpecPutPrompts.     *)
(***************************************************************************)
\* C29: a request answered with status 400 leaves every stored prompt as it
\* was: neither the base prompt nor a category prompt was upserted.
C29_RejectedRequestWritesNothing ==
    rt_status = 400 => rt_store = rt_before

\* What holds of the code: the two rejections that precede every write
\* leave the store alone.
C29_EarlyRejectionWritesNothing ==
    (rt_status = 400 /\ rt_key = 0) => rt_store = rt_before

(***************************************************************************)
(* Claims about the estimate wizard, checked under SpecWizard.             *)
(***************************************************************************)
\* C30: whenever the active step is "compare", canNavigateToStep("compare")
\* holds: boqResults.comparisons is not empty.
C30_CompareStepHasComparisons ==
    activeEstimateStep = "compare" =>
        canNavigateToStep("compare", activeEstimateStep, reviewStepActive,
                          wz_drawingItems, wz_boqItems, wz_comparisons, finalizeItems)

====
